---- MODULE Spec2Model ----
(***************************************************************************)
(* pi_slotmap_graph: generational slot storage for vertices and edges, the *)
(* edge connectivity queries built on it, and the hash / range multimap    *)
(* indices.                                                                *)
(*                                                                         *)
(* A store or index instance is exclusively owned and shares nothing with  *)
(* any other instance, so a behaviour drives one instance: the graph (its  *)
(* VertexContainer and EdgeContainer), a generic Container, a HashIndex or *)
(* a RangeIndex.  The variable `instance` names the one that is driven.    *)
(***************************************************************************)
EXTENDS Integers, Sequences, FiniteSets

(* ------------------------------ bounds --------------------------------- *)
\* slots a vertex store / generic container may grow to
MaxVertexSlots == 2
\* slots the edge store may grow to
MaxEdgeSlots == 2
\* how many times one slot may be handed out (the generation counter is capped)
MaxReuse == 2
\* add_edge is called with endpoints whose slot was handed out at most this many times
MaxEndpointReuse == 1
\* payloads are 1..NumPayloads
NumPayloads == 2
\* index keys are 1..NumKeys
NumKeys == 3
\* an index stores the first-generation VertexIds of slots 1..NumValues
NumValues == 2
\* SimpleVertexQuery: string keys are 1..NumStrings, integer keys -1..NumInts-2
NumStrings == 1
NumInts == 3
\* i64 and u64 are scaled down to IntBits bits, the narrower integer types to IntBits-1
IntBits == 3

Payloads == 1..NumPayloads
IndexKeys == 1..NumKeys

(* Option<T>: None is the empty sequence, Some(x) the one-element sequence. *)
None == <<>>
Some(x) == <<x>>
IsSome(o) == o /= None
Unwrap(o) == o[1]

Range(s) == {s[i] : i \in 1..Len(s)}
NoDup(s) == \A i, j \in 1..Len(s) : i /= j => s[i] /= s[j]

(* ------------------------- pi_slotmap::SlotMap -------------------------- *)
(* The slot map is the external crate the containers wrap.  A key is       *)
(* (idx, version); a slot holds a version that is odd while the slot is    *)
(* occupied and even while it is free, and free slots form a LIFO list     *)
(* through next_free.  Slot indices start at 1; index 0 is the sentinel    *)
(* that is never handed out.                                               *)

\* DefaultKey::default(): the null key, version 0 (storage/mod.rs test_storage_error)
DefaultKey == [idx |-> 0, version |-> 0]

\* the last version a slot may be given by an insert
LastVersion == 2 * MaxReuse - 1

KeysUpTo(n, reuse) ==
    {[idx |-> i, version |-> 2 * g - 1] : i \in 1..n, g \in 1..reuse} \cup {DefaultKey}

SlotMap_new == [slots |-> <<>>, free_head |-> 1, num_elems |-> 0]

SlotOccupied(slot) == slot.version % 2 = 1

SlotMap_contains_key(sm, key) ==
    /\ key.idx \in 1..Len(sm.slots)
    /\ sm.slots[key.idx].version = key.version
    /\ SlotOccupied(sm.slots[key.idx])

SlotMap_get(sm, key) ==
    IF SlotMap_contains_key(sm, key) THEN Some(sm.slots[key.idx].value) ELSE None

\* insert: take the head of the free list, else push a new slot
SlotMap_insert(sm, value) ==
    IF sm.free_head <= Len(sm.slots)
    THEN LET idx == sm.free_head
             slot == sm.slots[idx]
             occupied_version == slot.version + 1
         IN  [map |-> [slots |-> [sm.slots EXCEPT ![idx] =
                                     [version |-> occupied_version, value |-> value]],
                       free_head |-> slot.next_free,
                       num_elems |-> sm.num_elems + 1],
              key |-> [idx |-> idx, version |-> occupied_version]]
    ELSE LET idx == Len(sm.slots) + 1
         IN  [map |-> [slots |-> Append(sm.slots, [version |-> 1, value |-> value]),
                       free_head |-> idx + 1,
                       num_elems |-> sm.num_elems + 1],
              key |-> [idx |-> idx, version |-> 1]]

\* the version the next insert would hand out, and the slot it would use
SlotMap_next_key(sm) == SlotMap_insert(sm, 1).key

\* remove_from_slot: free the slot, bump its version, push it on the free list
SlotMap_remove_from_slot(sm, idx) ==
    [slots |-> [sm.slots EXCEPT ![idx] =
                   [version |-> sm.slots[idx].version + 1, next_free |-> sm.free_head]],
     free_head |-> idx,
     num_elems |-> sm.num_elems - 1]

SlotMap_remove(sm, key) ==
    IF SlotMap_contains_key(sm, key)
    THEN [map |-> SlotMap_remove_from_slot(sm, key.idx),
          value |-> Some(sm.slots[key.idx].value)]
    ELSE [map |-> sm, value |-> None]

SlotMap_set(sm, key, value) ==
    IF SlotMap_contains_key(sm, key)
    THEN [sm EXCEPT !.slots[key.idx].value = value]
    ELSE sm

RECURSIVE SlotMap_drain_from(_, _)
SlotMap_drain_from(sm, i) ==
    IF i > Len(sm.slots) THEN sm
    ELSE SlotMap_drain_from(
             IF SlotOccupied(sm.slots[i]) THEN SlotMap_remove_from_slot(sm, i) ELSE sm,
             i + 1)

\* clear drains the map: every occupied slot is freed and its version bumped
SlotMap_clear(sm) == SlotMap_drain_from(sm, 1)

\* iteration visits the occupied slots in slot order
RECURSIVE SlotMap_iter_from(_, _)
SlotMap_iter_from(sm, i) ==
    IF i > Len(sm.slots) THEN <<>>
    ELSE (IF SlotOccupied(sm.slots[i])
          THEN <<[key |-> [idx |-> i, version |-> sm.slots[i].version],
                  value |-> sm.slots[i].value]>>
          ELSE <<>>) \o SlotMap_iter_from(sm, i + 1)

SlotMap_iter(sm) == SlotMap_iter_from(sm, 1)

SlotMap_keys(sm) == [i \in 1..Len(SlotMap_iter(sm)) |-> SlotMap_iter(sm)[i].key]

SlotMap_values(sm) == [i \in 1..Len(SlotMap_iter(sm)) |-> SlotMap_iter(sm)[i].value]

SlotMap_len(sm) == sm.num_elems

\* an insert stays within the bounds: a slot is free for reuse or may be pushed
SlotMap_has_room(sm, max_slots) ==
    LET k == SlotMap_next_key(sm)
    IN  k.idx <= max_slots /\ k.version <= LastVersion

(* ------------------------------- ids ------------------------------------ *)
(* VertexId and EdgeId are newtype wrappers of DefaultKey; the wrapper is  *)
(* a compile-time distinction, so an id is modelled as its key.            *)
VertexId_new(key) == key
EdgeId_new(key) == key
VertexId_default == VertexId_new(DefaultKey)
EdgeId_default == EdgeId_new(DefaultKey)

VertexId_is_default(id) == id = DefaultKey
\* a validity test that accepts every id
VertexId_is_anything(id) == TRUE

VertexId_is_valid(id) == id /= DefaultKey
EdgeId_is_default(id) == id = DefaultKey
EdgeId_is_valid(id) == id /= DefaultKey

\* every vertex id / edge id a caller can hold within the bounds
VertexIds == KeysUpTo(MaxVertexSlots, MaxReuse)
EdgeIds == KeysUpTo(MaxEdgeSlots, MaxReuse)
\* the vertex ids add_edge is called with: live, removed or never handed out
EndpointIds == KeysUpTo(MaxVertexSlots, MaxEndpointReuse) \ {DefaultKey}

(* ------------------------------ EdgeInfo -------------------------------- *)
EdgeInfo_new(edge_id, from, to) == [edge_id |-> edge_id, from |-> from, to |-> to]
EdgeInfo_connects(info, from, to) == info.from = from /\ info.to = to
EdgeInfo_involves(info, vertex_id) == info.from = vertex_id \/ info.to = vertex_id

(* --------------------------- VertexContainer ---------------------------- *)
VertexContainer_new == [data |-> SlotMap_new]

\* an insert that pushes a new slot although a freed one waits for reuse
VertexContainer_insert_pushing(c, vertex) ==
    LET idx == Len(c.data.slots) + 1
    IN  [container |-> [data |-> [c.data EXCEPT
                                     !.slots = Append(c.data.slots,
                                                      [version |-> 1, value |-> vertex]),
                                     !.free_head = IF c.data.free_head = idx THEN idx + 1
                                                   ELSE c.data.free_head,
                                     !.num_elems = c.data.num_elems + 1]],
         id |-> VertexId_new([idx |-> idx, version |-> 1])]

VertexContainer_insert(c, vertex) ==
    LET r == SlotMap_insert(c.data, vertex)
    IN  [container |-> [data |-> r.map], id |-> VertexId_new(r.key)]

\* a lookup by slot index alone, the generation of the handle ignored
VertexContainer_get_by_index(c, id) ==
    IF id.idx \in 1..Len(c.data.slots) /\ SlotOccupied(c.data.slots[id.idx])
    THEN Some(c.data.slots[id.idx].value)
    ELSE None

VertexContainer_get(c, id) == SlotMap_get(c.data, id)

\* get_mut followed by an assignment through the returned reference
VertexContainer_get_mut_set(c, id, vertex) == [data |-> SlotMap_set(c.data, id, vertex)]

\* a removal of whatever occupies the slot the handle points at
VertexContainer_remove_by_index(c, id) ==
    IF id.idx \in 1..Len(c.data.slots) /\ SlotOccupied(c.data.slots[id.idx])
    THEN [container |-> [data |-> SlotMap_remove_from_slot(c.data, id.idx)],
          value |-> Some(c.data.slots[id.idx].value)]
    ELSE [container |-> c, value |-> None]

VertexContainer_remove(c, id) ==
    LET r == SlotMap_remove(c.data, id)
    IN  [container |-> [data |-> r.map], value |-> r.value]

VertexContainer_contains(c, id) == SlotMap_contains_key(c.data, id)

VertexContainer_len(c) == SlotMap_len(c.data)

VertexContainer_is_empty(c) == SlotMap_len(c.data) = 0

VertexContainer_clear(c) == [data |-> SlotMap_clear(c.data)]

\* a keys() that also visits the freed slots
VertexContainer_keys_with_freed(c) ==
    [i \in 1..Len(c.data.slots) |->
        VertexId_new([idx |-> i, version |-> c.data.slots[i].version])]

VertexContainer_keys(c) == SlotMap_keys(c.data)

VertexContainer_values(c) == SlotMap_values(c.data)

\* iter(): the (id, payload) pairs
VertexContainer_iter(c) ==
    [i \in 1..Len(SlotMap_iter(c.data)) |->
        <<VertexId_new(SlotMap_iter(c.data)[i].key), SlotMap_iter(c.data)[i].value>>]

(* ------------------------------ Container ------------------------------- *)
Container_new == [data |-> SlotMap_new]

Container_insert(c, value) ==
    LET r == SlotMap_insert(c.data, value)
    IN  [container |-> [data |-> r.map], id |-> r.key]

Container_get(c, key) == SlotMap_get(c.data, key)

Container_get_mut_set(c, key, value) == [data |-> SlotMap_set(c.data, key, value)]

Container_remove(c, key) ==
    LET r == SlotMap_remove(c.data, key)
    IN  [container |-> [data |-> r.map], value |-> r.value]

Container_contains(c, key) == SlotMap_contains_key(c.data, key)

Container_len(c) == SlotMap_len(c.data)

Container_is_empty(c) == SlotMap_len(c.data) = 0

Container_clear(c) == [data |-> SlotMap_clear(c.data)]

Container_keys(c) == SlotMap_keys(c.data)

Container_values(c) == SlotMap_values(c.data)

Container_iter(c) ==
    [i \in 1..Len(SlotMap_iter(c.data)) |->
        <<SlotMap_iter(c.data)[i].key, SlotMap_iter(c.data)[i].value>>]

(* ---------------------------- EdgeContainer ----------------------------- *)
(* Two slot maps side by side: the payloads and the EdgeInfo records.      *)
EdgeContainer_new == [data |-> SlotMap_new, connections |-> SlotMap_new]

EdgeContainer_insert(c, edge, edge_info) ==
    LET d == SlotMap_insert(c.data, edge)
        n == SlotMap_insert(c.connections, edge_info)
    IN  [container |-> [data |-> d.map, connections |-> n.map],
         id |-> EdgeId_new(d.key)]

EdgeContainer_get(c, id) == SlotMap_get(c.data, id)

\* a write through a lookup by slot index alone
EdgeContainer_get_mut_set_by_index(c, id, edge) ==
    IF id.idx \in 1..Len(c.data.slots) /\ SlotOccupied(c.data.slots[id.idx])
    THEN [c EXCEPT !.data.slots[id.idx].value = edge]
    ELSE c

EdgeContainer_get_mut_set(c, id, edge) ==
    [c EXCEPT !.data = SlotMap_set(c.data, id, edge)]

EdgeContainer_get_connection(c, id) == SlotMap_get(c.connections, id)

\* a removal that frees the payload slot alone
EdgeContainer_remove_data_only(c, id) ==
    LET d == SlotMap_remove(c.data, id)
        n == SlotMap_get(c.connections, id)
    IN  [container |-> [c EXCEPT !.data = d.map],
         value |-> IF IsSome(d.value) /\ IsSome(n)
                   THEN Some(<<Unwrap(d.value), Unwrap(n)>>)
                   ELSE None]

EdgeContainer_remove(c, id) ==
    LET d == SlotMap_remove(c.data, id)
        n == SlotMap_remove(c.connections, id)
    IN  [container |-> [data |-> d.map, connections |-> n.map],
         value |-> IF IsSome(d.value) /\ IsSome(n.value)
                   THEN Some(<<Unwrap(d.value), Unwrap(n.value)>>)
                   ELSE None]

EdgeContainer_contains(c, id) == SlotMap_contains_key(c.data, id)

EdgeContainer_len(c) == SlotMap_len(c.data)

EdgeContainer_is_empty(c) == SlotMap_len(c.data) = 0

EdgeContainer_clear(c) ==
    [data |-> SlotMap_clear(c.data), connections |-> SlotMap_clear(c.connections)]

EdgeContainer_keys(c) == SlotMap_keys(c.data)

\* .map(|(key, _)| EdgeId::new(key)) over the entries a filter kept, in slot order
EntryKeys(entries) == [i \in 1..Len(entries) |-> EdgeId_new(entries[i].key)]

\* self.data.iter().zip(self.connections.iter()): the two iterations paired
\* by position, as long as both have an entry
EdgeContainer_zip(c) ==
    LET d == SlotMap_iter(c.data)
        n == SlotMap_iter(c.connections)
        len == IF Len(d) <= Len(n) THEN Len(d) ELSE Len(n)
    IN  [i \in 1..len |-> [key |-> d[i].key, edge |-> d[i].value, info |-> n[i].value]]

\* a retain predicate FnMut(EdgeId, &E, &EdgeInfo) -> bool: [by, v] keeps the
\* edges whose id, payload, source or target is v
Predicate(p, edge_id, edge, info) ==
    CASE p.by = "id" -> edge_id = p.v
      [] p.by = "edge" -> edge = p.v
      [] p.by = "from" -> info.from = p.v
      [] OTHER -> info.to = p.v

RECURSIVE RemoveKeys(_, _, _)
RemoveKeys(c, keys_to_remove, i) ==
    IF i > Len(keys_to_remove) THEN c
    ELSE RemoveKeys([data |-> SlotMap_remove(c.data, keys_to_remove[i]).map,
                     connections |-> SlotMap_remove(c.connections, keys_to_remove[i]).map],
                    keys_to_remove, i + 1)

\* an iteration that pairs every edge with the first connection entry
EdgeContainer_iter_with_first_connection(c) ==
    LET z == EdgeContainer_zip(c)
    IN  [i \in 1..Len(z) |-> [id |-> EdgeId_new(z[i].key), edge |-> z[i].edge, info |-> z[1].info]]

\* iter_with_connections: (EdgeId::new(key), edge, info) for each zipped pair
EdgeContainer_iter_with_connections(c) ==
    LET z == EdgeContainer_zip(c)
    IN  [i \in 1..Len(z) |-> [id |-> EdgeId_new(z[i].key), edge |-> z[i].edge, info |-> z[i].info]]

EdgeContainer_retain(c, p) ==
    LET Drop(e) == ~Predicate(p, EdgeId_new(e.key), e.edge, e.info)
        dropped == SelectSeq(EdgeContainer_zip(c), Drop)
        keys_to_remove == [i \in 1..Len(dropped) |-> dropped[i].key]
    IN  RemoveKeys(c, keys_to_remove, 1)

\* insert_iter: insert every (edge, info) of the sequence, collecting the ids
RECURSIVE EdgeContainer_insert_iter_from(_, _, _)
EdgeContainer_insert_iter_from(c, items, i) ==
    IF i > Len(items) THEN [container |-> c, ids |-> <<>>]
    ELSE LET r == EdgeContainer_insert(c, items[i].edge, items[i].info)
             rest == EdgeContainer_insert_iter_from(r.container, items, i + 1)
         IN  [container |-> rest.container, ids |-> <<r.id>> \o rest.ids]

EdgeContainer_insert_iter(c, items) == EdgeContainer_insert_iter_from(c, items, 1)

EdgeContainer_edges_from(c, vertex_id) ==
    LET Keep(e) == e.value.from = vertex_id
    IN  EntryKeys(SelectSeq(SlotMap_iter(c.connections), Keep))

EdgeContainer_edges_to(c, vertex_id) ==
    LET Keep(e) == e.value.to = vertex_id
    IN  EntryKeys(SelectSeq(SlotMap_iter(c.connections), Keep))

EdgeContainer_edges_involving(c, vertex_id) ==
    LET Keep(e) == EdgeInfo_involves(e.value, vertex_id)
    IN  EntryKeys(SelectSeq(SlotMap_iter(c.connections), Keep))

\* an edges_adjacent that misses the edges arriving at the vertex
EdgeContainer_edges_leaving(c, vertex_id) ==
    LET Keep(e) == e.value.from = vertex_id
    IN  EntryKeys(SelectSeq(SlotMap_iter(c.connections), Keep))

EdgeContainer_edges_adjacent(c, vertex_id) == EdgeContainer_edges_involving(c, vertex_id)

\* the edges that join the two vertices in either direction
EdgeContainer_edges_joining(c, from, to) ==
    LET Keep(e) == EdgeInfo_connects(e.value, from, to) \/ EdgeInfo_connects(e.value, to, from)
    IN  EntryKeys(SelectSeq(SlotMap_iter(c.connections), Keep))

EdgeContainer_edges_between(c, from, to) ==
    LET Keep(e) == EdgeInfo_connects(e.value, from, to)
    IN  EntryKeys(SelectSeq(SlotMap_iter(c.connections), Keep))

\* true when some entry joins the two vertices in either direction
EdgeContainer_has_edge_joining(c, from, to) ==
    LET entries == SlotMap_iter(c.connections)
    IN  \E i \in 1..Len(entries) :
           \/ EdgeInfo_connects(entries[i].value, from, to)
           \/ EdgeInfo_connects(entries[i].value, to, from)

\* any(): true when some entry connects from -> to
EdgeContainer_has_edge_between(c, from, to) ==
    LET entries == SlotMap_iter(c.connections)
    IN  \E i \in 1..Len(entries) : EdgeInfo_connects(entries[i].value, from, to)

\* find(): the first entry in slot order that connects from -> to
EdgeContainer_get_edge_between(c, from, to) ==
    LET entries == SlotMap_iter(c.connections)
        hits == {i \in 1..Len(entries) : EdgeInfo_connects(entries[i].value, from, to)}
    IN  IF hits = {} THEN None
        ELSE Some(EdgeId_new(entries[CHOOSE i \in hits : \A j \in hits : i <= j].key))

(* ------------------------------ trait Storage --------------------------- *)
(* Storage::contains as VertexContainer, EdgeContainer and Container       *)
(* implement it: the key is not looked at.                                 *)
Storage_contains_VertexContainer(c, id) == FALSE

Storage_contains_EdgeContainer(c, id) == FALSE

Storage_contains_Container(c, id) == FALSE

(* ------------------------------ HashIndex ------------------------------- *)
(* HashMap<K, HashSet<V>>: a function from the present keys to their value *)
(* sets; `empty` is the set get() falls back to for an absent key.         *)
HashIndex_new == [map |-> [x \in {} |-> {}], empty |-> {}]

\* self.map.entry(key).or_default().insert(value)
HashIndex_insert(ix, key, value) ==
    LET values == IF key \in DOMAIN ix.map THEN ix.map[key] ELSE {}
    IN  [index |-> [ix EXCEPT !.map =
                       [k \in DOMAIN ix.map \cup {key} |->
                           IF k = key THEN values \cup {value} ELSE ix.map[k]]],
         ret |-> value \notin values]

\* a removal that leaves the key in the map when its last value goes
HashIndex_remove_keep_key(ix, key, value) ==
    IF key \in DOMAIN ix.map
    THEN [index |-> [ix EXCEPT !.map[key] = ix.map[key] \ {value}],
          ret |-> value \in ix.map[key]]
    ELSE [index |-> ix, ret |-> FALSE]

\* a removal that drops the whole key when the value was under it
HashIndex_remove_whole_key(ix, key, value) ==
    IF key \in DOMAIN ix.map
    THEN [index |-> [ix EXCEPT !.map =
                        IF value \in ix.map[key]
                        THEN [k \in DOMAIN ix.map \ {key} |-> ix.map[k]]
                        ELSE ix.map],
          ret |-> value \in ix.map[key]]
    ELSE [index |-> ix, ret |-> FALSE]

HashIndex_remove(ix, key, value) ==
    IF key \in DOMAIN ix.map
    THEN LET removed == value \in ix.map[key]
             values == ix.map[key] \ {value}
         IN  [index |-> [ix EXCEPT !.map =
                            IF values = {}
                            THEN [k \in DOMAIN ix.map \ {key} |-> ix.map[k]]
                            ELSE [ix.map EXCEPT ![key] = values]],
              ret |-> removed]
    ELSE [index |-> ix, ret |-> FALSE]

\* a remove_all that empties the value set and leaves the key in the map
HashIndex_remove_all_keep_key(ix, key) ==
    [index |-> [ix EXCEPT !.map =
                   [k \in DOMAIN ix.map |-> IF k = key THEN {} ELSE ix.map[k]]],
     ret |-> IF key \in DOMAIN ix.map THEN Some(ix.map[key]) ELSE None]

HashIndex_remove_all(ix, key) ==
    [index |-> [ix EXCEPT !.map = [k \in DOMAIN ix.map \ {key} |-> ix.map[k]]],
     ret |-> IF key \in DOMAIN ix.map THEN Some(ix.map[key]) ELSE None]

\* the values get(key) yields (a HashSet iterates each element once, in no fixed order)
HashIndex_get(ix, key) == IF key \in DOMAIN ix.map THEN ix.map[key] ELSE ix.empty

HashIndex_contains(ix, key, value) ==
    IF key \in DOMAIN ix.map THEN value \in ix.map[key] ELSE FALSE

HashIndex_contains_key(ix, key) == key \in DOMAIN ix.map

HashIndex_len_of(ix, key) ==
    IF key \in DOMAIN ix.map THEN Cardinality(ix.map[key]) ELSE 0

\* keys(): the keys of the HashMap, in no fixed order
HashIndex_keys(ix) == DOMAIN ix.map

HashIndex_keys_len(ix) == Cardinality(DOMAIN ix.map)

\* self.map.values().map(|values| values.len()).sum()
RECURSIVE SumOfLens(_, _)
SumOfLens(map, keys) ==
    IF keys = {} THEN 0
    ELSE LET k == CHOOSE x \in keys : TRUE
         IN  Cardinality(map[k]) + SumOfLens(map, keys \ {k})

HashIndex_total_values_len(ix) == SumOfLens(ix.map, DOMAIN ix.map)

HashIndex_is_empty(ix) == DOMAIN ix.map = {}

HashIndex_clear(ix) == [ix EXCEPT !.map = [x \in {} |-> {}]]

(* ------------------------------ RangeIndex ------------------------------ *)
(* BTreeMap<K, HashSet<V>>: the same function, iterated in key order.      *)
RangeIndex_new == [map |-> [x \in {} |-> {}], empty |-> {}]

\* an insert that reports every call as a new pair
RangeIndex_insert_always_new(ix, key, value) ==
    [index |-> [ix EXCEPT !.map =
                   [k \in DOMAIN ix.map \cup {key} |->
                       IF k = key
                       THEN (IF key \in DOMAIN ix.map THEN ix.map[key] ELSE {}) \cup {value}
                       ELSE ix.map[k]]],
     ret |-> TRUE]

\* self.map.entry(key).or_default().insert(value)
RangeIndex_insert(ix, key, value) ==
    LET values == IF key \in DOMAIN ix.map THEN ix.map[key] ELSE {}
    IN  [index |-> [ix EXCEPT !.map =
                       [k \in DOMAIN ix.map \cup {key} |->
                           IF k = key THEN values \cup {value} ELSE ix.map[k]]],
         ret |-> value \notin values]

\* a removal that leaves the key in the map when its last value goes
RangeIndex_remove_keep_key(ix, key, value) ==
    IF key \in DOMAIN ix.map
    THEN [index |-> [ix EXCEPT !.map[key] = ix.map[key] \ {value}],
          ret |-> value \in ix.map[key]]
    ELSE [index |-> ix, ret |-> FALSE]

RangeIndex_remove(ix, key, value) ==
    IF key \in DOMAIN ix.map
    THEN LET removed == value \in ix.map[key]
             values == ix.map[key] \ {value}
         IN  [index |-> [ix EXCEPT !.map =
                            IF values = {}
                            THEN [k \in DOMAIN ix.map \ {key} |-> ix.map[k]]
                            ELSE [ix.map EXCEPT ![key] = values]],
              ret |-> removed]
    ELSE [index |-> ix, ret |-> FALSE]

RangeIndex_get(ix, key) == IF key \in DOMAIN ix.map THEN ix.map[key] ELSE ix.empty

\* keys(): the keys of the BTreeMap
RangeIndex_keys(ix) == DOMAIN ix.map

RangeIndex_keys_len(ix) == Cardinality(DOMAIN ix.map)

RangeIndex_is_empty(ix) == DOMAIN ix.map = {}

RangeIndex_clear(ix) == [ix EXCEPT !.map = [x \in {} |-> {}]]

(* std::ops::Bound and BTreeMap::range: the entries whose key lies inside  *)
(* the bounds, in ascending key order; the call panics when start > end,  *)
(* and when start = end with both bounds excluded. The bounds are tested  *)
(* when the tree is searched: a map that holds no entry may have no root  *)
(* node, and the call then returns the empty range.                       *)
Included(k) == [kind |-> "Included", key |-> k]
Excluded(k) == [kind |-> "Excluded", key |-> k]
Unbounded == [kind |-> "Unbounded", key |-> 0]

AboveStart(k, start) ==
    CASE start.kind = "Included" -> k >= start.key
      [] start.kind = "Excluded" -> k > start.key
      [] OTHER -> TRUE

BelowEnd(k, end) ==
    CASE end.kind = "Included" -> k <= end.key
      [] end.kind = "Excluded" -> k < end.key
      [] OTHER -> TRUE

BTreeMap_range_panics(map, start, end) ==
    /\ DOMAIN map /= {}
    /\ start.kind /= "Unbounded"
    /\ end.kind /= "Unbounded"
    /\ \/ start.key > end.key
       \/ start.key = end.key /\ start.kind = "Excluded" /\ end.kind = "Excluded"

\* the keys of a set in ascending order
RECURSIVE Ascending(_)
Ascending(keys) ==
    IF keys = {} THEN <<>>
    ELSE LET least == CHOOSE k \in keys : \A j \in keys : k <= j
         IN  <<least>> \o Ascending(keys \ {least})

\* [panicked, entries]: entries is the sequence of [key, values] visited
BTreeMap_range(map, start, end) ==
    IF BTreeMap_range_panics(map, start, end)
    THEN [panicked |-> TRUE, entries |-> <<>>]
    ELSE LET keys == Ascending({k \in DOMAIN map : AboveStart(k, start) /\ BelowEnd(k, end)})
         IN  [panicked |-> FALSE,
              entries |-> [i \in 1..Len(keys) |-> [key |-> keys[i], values |-> map[keys[i]]]]]

\* a range that takes an excluded end as included
RangeIndex_range_closed(ix, start, end) ==
    BTreeMap_range(ix.map, start,
                   IF end.kind = "Excluded" THEN Included(end.key) ELSE end)

\* range(r): flat_map over the entries of self.map.range(r)
RangeIndex_range(ix, start, end) == BTreeMap_range(ix.map, start, end)

\* range_bounds(): (self.map.keys().next(), self.map.keys().next_back())
RangeIndex_range_bounds(ix) ==
    LET keys == Ascending(DOMAIN ix.map)
    IN  IF Len(keys) = 0 THEN None ELSE Some(<<keys[1], keys[Len(keys)]>>)

RangeIndex_from(ix, key) == BTreeMap_range(ix.map, Included(key), Unbounded)

RangeIndex_to(ix, key) == BTreeMap_range(ix.map, Unbounded, Included(key))

RangeIndex_after(ix, key) == BTreeMap_range(ix.map, Excluded(key), Unbounded)

\* a before() that also visits the key itself
RangeIndex_before_inclusive(ix, key) == BTreeMap_range(ix.map, Unbounded, Included(key))

RangeIndex_before(ix, key) == BTreeMap_range(ix.map, Unbounded, Excluded(key))

\* what the iterator of a range call yields: the keys visited, in order, and
\* how often each value comes out (a HashSet yields its elements in no fixed order)
VisitedKeys(r) == [i \in 1..Len(r.entries) |-> r.entries[i].key]
Yielded(r) == UNION {r.entries[i].values : i \in 1..Len(r.entries)}
YieldCount(r, v) == Cardinality({i \in 1..Len(r.entries) : v \in r.entries[i].values})

(* -------------------------- SimpleVertexQuery --------------------------- *)
(* string_index and int_index are HashMaps, int_range_index is a BTreeMap, *)
(* each from a key to a HashSet<VertexId>.                                 *)
StringKeys == 1..NumStrings
IntKeys == (0 - 1)..(NumInts - 2)

\* graph_api_lib::Value: [variant, v]
I64Values == (0 - 2 ^ (IntBits - 1))..(2 ^ (IntBits - 1) - 1)
U64Values == 0..(2 ^ IntBits - 1)
NarrowSigned == (0 - 2 ^ (IntBits - 2))..(2 ^ (IntBits - 2) - 1)
NarrowUnsigned == 0..(2 ^ (IntBits - 1) - 1)
SignedVariants == {"I8", "I16", "I32", "I64"}
UnsignedVariants == {"U8", "U16", "U32", "U64"}
Values ==
    [variant : {"Str"}, v : StringKeys]
    \cup [variant : {"I8", "I16", "I32"}, v : NarrowSigned]
    \cup [variant : {"I64"}, v : I64Values]
    \cup [variant : {"U8", "U16", "U32"}, v : NarrowUnsigned]
    \cup [variant : {"U64"}, v : U64Values]
    \cup [variant : {"Bool", "F64"}, v : {0, 1}]

\* `as i64`: value-preserving for every type but u64, which wraps
Value_as_i64(value) ==
    IF value.variant = "U64" /\ value.v >= 2 ^ (IntBits - 1)
    THEN value.v - 2 ^ IntBits
    ELSE value.v

SimpleVertexQuery_new ==
    [string_index |-> [x \in {} |-> {}],
     int_index |-> [x \in {} |-> {}],
     int_range_index |-> [x \in {} |-> {}]]

\* map.entry(key).or_default().insert(vertex_id)
EntryInsert(map, key, vertex_id) ==
    [k \in DOMAIN map \cup {key} |->
        IF k = key
        THEN (IF key \in DOMAIN map THEN map[key] ELSE {}) \cup {vertex_id}
        ELSE map[k]]

SimpleVertexQuery_insert_string(q, value, vertex_id) ==
    [q EXCEPT !.string_index = EntryInsert(q.string_index, value, vertex_id)]

\* an insert that fills the hash index alone
SimpleVertexQuery_insert_int_hash_only(q, value, vertex_id) ==
    [q EXCEPT !.int_index = EntryInsert(q.int_index, value, vertex_id)]

SimpleVertexQuery_insert_int(q, value, vertex_id) ==
    [q EXCEPT !.int_index = EntryInsert(q.int_index, value, vertex_id),
              !.int_range_index = EntryInsert(q.int_range_index, value, vertex_id)]

SimpleVertexQuery_query_string(q, value) ==
    IF value \in DOMAIN q.string_index THEN q.string_index[value] ELSE {}

SimpleVertexQuery_query_int(q, value) ==
    IF value \in DOMAIN q.int_index THEN q.int_index[value] ELSE {}

\* range: Range<i64>, start..end
SimpleVertexQuery_range_int(q, start, end) ==
    BTreeMap_range(q.int_range_index, Included(start), Excluded(end))

\* the ids a query_value / range_value call gives: [panicked, ids]
SimpleVertexQuery_query_value(q, value) ==
    CASE value.variant = "Str" ->
            [panicked |-> FALSE, ids |-> SimpleVertexQuery_query_string(q, value.v)]
      [] value.variant \in SignedVariants \cup UnsignedVariants ->
            [panicked |-> FALSE,
             ids |-> SimpleVertexQuery_query_int(q, Value_as_i64(value))]
      [] OTHER -> [panicked |-> FALSE, ids |-> {}]

SimpleVertexQuery_range_value(q, start, end) ==
    IF /\ start.variant = end.variant
       /\ start.variant \in SignedVariants \cup UnsignedVariants
    THEN LET r == SimpleVertexQuery_range_int(q, Value_as_i64(start), Value_as_i64(end))
         IN  [panicked |-> r.panicked, ids |-> Yielded(r)]
    ELSE [panicked |-> FALSE, ids |-> {}]

\* map.retain(|_, set| { set.remove(&vertex_id); !set.is_empty() })
RetainWithout(map, vertex_id) ==
    [k \in {j \in DOMAIN map : map[j] \ {vertex_id} /= {}} |-> map[k] \ {vertex_id}]

\* a removal that leaves the range index as it is
SimpleVertexQuery_remove_vertex_hashes_only(q, vertex_id) ==
    [q EXCEPT !.string_index = RetainWithout(q.string_index, vertex_id),
              !.int_index = RetainWithout(q.int_index, vertex_id)]

SimpleVertexQuery_remove_vertex(q, vertex_id) ==
    [string_index |-> RetainWithout(q.string_index, vertex_id),
     int_index |-> RetainWithout(q.int_index, vertex_id),
     int_range_index |-> RetainWithout(q.int_range_index, vertex_id)]

SimpleVertexQuery_clear(q) == SimpleVertexQuery_new

(* ----------------------------- SlotMapGraph ---------------------------- *)
(* The graph owns a VertexContainer, an EdgeContainer and the               *)
(* SimpleVertexQuery that holds its vertex indices.                        *)
SlotMapGraph_new ==
    [vertices |-> VertexContainer_new, edges |-> EdgeContainer_new,
     vertex_query |-> SimpleVertexQuery_new]

\* vertex_query_mut(): a call made on the returned reference
Graph_vertex_query_mut_set(g, vertex_query) == [g EXCEPT !.vertex_query = vertex_query]

Graph_vertex_query(g) == g.vertex_query

Graph_index_vertex_string(g, vertex_id, value) ==
    [g EXCEPT !.vertex_query = SimpleVertexQuery_insert_string(g.vertex_query, value, vertex_id)]

Graph_index_vertex_int(g, vertex_id, value) ==
    [g EXCEPT !.vertex_query = SimpleVertexQuery_insert_int(g.vertex_query, value, vertex_id)]

Graph_add_vertex(g, vertex) ==
    LET r == VertexContainer_insert(g.vertices, vertex)
    IN  [graph |-> [g EXCEPT !.vertices = r.container], id |-> r.id]

\* the EdgeInfo is built with EdgeId::default() as its edge_id
Graph_add_edge(g, from, to, edge) ==
    LET edge_info == EdgeInfo_new(EdgeId_default, from, to)
        r == EdgeContainer_insert(g.edges, edge, edge_info)
    IN  [graph |-> [g EXCEPT !.edges = r.container], id |-> r.id]

Graph_vertex(g, id) ==
    LET w == VertexContainer_get(g.vertices, id)
    IN  IF IsSome(w) THEN Some([id |-> id, weight |-> Unwrap(w)]) ELSE None

\* vertex_mut(id) and a write through weight_mut()
Graph_vertex_mut_set(g, id, vertex) ==
    [g EXCEPT !.vertices = VertexContainer_get_mut_set(g.vertices, id, vertex)]

\* the reference carries the payload and the endpoints of the stored EdgeInfo
Graph_edge(g, id) ==
    LET w == EdgeContainer_get(g.edges, id)
        conn == EdgeContainer_get_connection(g.edges, id)
    IN  IF IsSome(w) /\ IsSome(conn)
        THEN Some([id |-> id, weight |-> Unwrap(w),
                   from |-> Unwrap(conn).from, to |-> Unwrap(conn).to])
        ELSE None

\* a write through edge_mut that also turns the edge around
Graph_edge_mut_set_reversing(g, id, edge) ==
    IF EdgeContainer_contains(g.edges, id)
    THEN LET info == Unwrap(EdgeContainer_get_connection(g.edges, id))
         IN  [g EXCEPT !.edges.data = SlotMap_set(g.edges.data, id, edge),
                       !.edges.connections =
                           SlotMap_set(g.edges.connections, id,
                                       EdgeInfo_new(info.edge_id, info.to, info.from))]
    ELSE g

\* edge_mut(id) and a write through weight_mut()
Graph_edge_mut_set(g, id, edge) ==
    [g EXCEPT !.edges = EdgeContainer_get_mut_set(g.edges, id, edge)]

Graph_edge_from(g, edge_id) ==
    LET conn == EdgeContainer_get_connection(g.edges, edge_id)
    IN  IF IsSome(conn) THEN Some(Unwrap(conn).from) ELSE None

Graph_edge_to(g, edge_id) ==
    LET conn == EdgeContainer_get_connection(g.edges, edge_id)
    IN  IF IsSome(conn) THEN Some(Unwrap(conn).to) ELSE None

Graph_has_edge(g, from, to) == EdgeContainer_has_edge_between(g.edges, from, to)

\* edges_between(a, b): the ids of the references it yields
Graph_edges_between(g, from, to) ==
    LET Resolves(e) == IsSome(Graph_edge(g, e))
    IN  SelectSeq(EdgeContainer_edges_between(g.edges, from, to), Resolves)

\* the number of distinct vertices the edges leaving vertex_id lead to
Graph_out_neighbour_count(g, vertex_id) ==
    LET entries == SlotMap_iter(g.edges.connections)
    IN  Cardinality({entries[i].value.to : i \in {j \in 1..Len(entries) :
                                                    entries[j].value.from = vertex_id}})

Graph_out_degree(g, vertex_id) == Len(EdgeContainer_edges_from(g.edges, vertex_id))

Graph_in_degree(g, vertex_id) == Len(EdgeContainer_edges_to(g.edges, vertex_id))

Graph_degree(g, vertex_id) == Len(EdgeContainer_edges_adjacent(g.edges, vertex_id))

\* all_edges(): (id, edge, info.from(), info.to()) over iter_with_connections
Graph_all_edges(g) ==
    LET s == EdgeContainer_iter_with_connections(g.edges)
    IN  [i \in 1..Len(s) |-> <<s[i].id, s[i].edge, s[i].info.from, s[i].info.to>>]

Graph_vertex_count(g) == VertexContainer_len(g.vertices)

Graph_edge_count(g) == EdgeContainer_len(g.edges)

Graph_contains_vertex(g, vertex_id) == VertexContainer_contains(g.vertices, vertex_id)

Graph_contains_edge(g, edge_id) == EdgeContainer_contains(g.edges, edge_id)

Graph_is_empty(g) ==
    VertexContainer_is_empty(g.vertices) /\ EdgeContainer_is_empty(g.edges)

\* a clear of the vertices that leaves the edges in place
Graph_clear_vertices_only(g) == [g EXCEPT !.vertices = VertexContainer_clear(g.vertices)]

\* a clear that forgets the slots, so that the next inserts start over
Graph_clear_resetting(g) == SlotMapGraph_new

Graph_clear(g) ==
    [g EXCEPT !.vertices = VertexContainer_clear(g.vertices),
              !.edges = EdgeContainer_clear(g.edges)]

\* for edge_id in edges_to_remove { self.edges.remove(edge_id); }
RECURSIVE RemoveEdges(_, _, _)
RemoveEdges(edges, edges_to_remove, i) ==
    IF i > Len(edges_to_remove) THEN edges
    ELSE RemoveEdges(EdgeContainer_remove(edges, edges_to_remove[i]).container,
                     edges_to_remove, i + 1)

\* a remove_vertex that also takes the vertex out of the indices
Graph_remove_vertex_purging(g, id) ==
    LET edges_to_remove == EdgeContainer_edges_adjacent(g.edges, id)
        r == VertexContainer_remove(g.vertices, id)
    IN  [graph |-> [vertices |-> r.container,
                    edges |-> RemoveEdges(g.edges, edges_to_remove, 1),
                    vertex_query |-> SimpleVertexQuery_remove_vertex(g.vertex_query, id)],
         value |-> r.value]

\* collect the adjacent edges, remove them, then remove the vertex
\* a removal of the vertex slot alone, its edges left in place
Graph_remove_vertex_only(g, id) ==
    LET r == VertexContainer_remove(g.vertices, id)
    IN  [graph |-> [g EXCEPT !.vertices = r.container], value |-> r.value]

Graph_remove_vertex(g, id) ==
    LET edges_to_remove == EdgeContainer_edges_adjacent(g.edges, id)
        edges_after == RemoveEdges(g.edges, edges_to_remove, 1)
        r == VertexContainer_remove(g.vertices, id)
    IN  [graph |-> [g EXCEPT !.vertices = r.container, !.edges = edges_after],
         value |-> r.value]

\* a remove_edge that takes every edge with the same endpoints along
Graph_remove_edge_parallel(g, edge) ==
    LET r == EdgeContainer_remove(g.edges, edge)
    IN  IF IsSome(r.value)
        THEN LET info == Unwrap(r.value)[2]
                 others == EdgeContainer_edges_between(r.container, info.from, info.to)
             IN  [graph |-> [g EXCEPT !.edges = RemoveEdges(r.container, others, 1)],
                  value |-> Some(Unwrap(r.value)[1])]
        ELSE [graph |-> g, value |-> None]

Graph_remove_edge(g, edge) ==
    LET r == EdgeContainer_remove(g.edges, edge)
    IN  [graph |-> [g EXCEPT !.edges = r.container],
         value |-> IF IsSome(r.value) THEN Some(Unwrap(r.value)[1]) ELSE None]

(* ------------------------- vertices() and edges() ----------------------- *)
(* VertexSearch and EdgeSearch are descriptors of graph_api_lib: a kind    *)
(* with its argument, or a direction with an optional label, and an        *)
(* optional limit; limit() is usize::MAX for a search without limit.       *)
\* Element::label(): payloads of equal parity carry the same label
LabelOf(payload) == payload % 2
Labels == {LabelOf(p) : p \in Payloads}
UsizeMax == 2 ^ IntBits - 1
SearchLimits == {None} \cup {Some(n) : n \in 0..(MaxEdgeSlots - 1)}
Search_limit(search) == IF IsSome(search.limit) THEN Unwrap(search.limit) ELSE UsizeMax

VertexSearches ==
    [kind : {"Scan"}, limit : SearchLimits]
    \cup [kind : {"Label"}, label : Labels, limit : SearchLimits]
    \cup [kind : {"Index"}, value : [variant : {"I64"}, v : IntKeys], limit : SearchLimits]
    \cup [kind : {"Range"}, start : [variant : {"I64"}, v : IntKeys],
          end : [variant : {"I64"}, v : IntKeys], limit : SearchLimits]

EdgeSearches ==
    [direction : {"Outgoing", "Incoming", "All"},
     label : {None} \cup {Some(l) : l \in Labels},
     limit : SearchLimits]

\* VertexIter::next until it returns None: the references yielded
RECURSIVE VertexIter_collect(_, _, _, _, _)
VertexIter_collect(vertices, keys, i, count, limit) ==
    IF count >= limit \/ i > Len(keys) THEN <<>>
    ELSE LET weight == VertexContainer_get(vertices, keys[i])
         IN  IF IsSome(weight)
             THEN <<[id |-> keys[i], weight |-> Unwrap(weight)]>>
                  \o VertexIter_collect(vertices, keys, i + 1, count + 1, limit)
             ELSE VertexIter_collect(vertices, keys, i + 1, count, limit)

\* a scan that yields every vertex, whatever the limit
Graph_vertices_unlimited(g, search) ==
    VertexIter_collect(g.vertices, VertexContainer_keys(g.vertices), 1, 0, UsizeMax)

\* vertices(search): the keys are self.vertices.keys() for every kind of search
Graph_vertices(g, search) ==
    VertexIter_collect(g.vertices, VertexContainer_keys(g.vertices), 1, 0,
                       Search_limit(search))

\* EdgeIter::next until it returns None
RECURSIVE EdgeIter_collect(_, _, _, _, _)
EdgeIter_collect(g, keys, i, count, limit) ==
    IF count >= limit \/ i > Len(keys) THEN <<>>
    ELSE LET ref == Graph_edge(g, keys[i])
         IN  IF IsSome(ref)
             THEN <<Unwrap(ref)>> \o EdgeIter_collect(g, keys, i + 1, count + 1, limit)
             ELSE EdgeIter_collect(g, keys, i + 1, count, limit)

\* the edges of every direction and label, up to the limit
Graph_edges_touching(g, vertex, search) ==
    EdgeIter_collect(g, EdgeContainer_edges_adjacent(g.edges, vertex), 1, 0,
                     Search_limit(search))

Graph_edges(g, vertex, search) ==
    LET candidate_edges ==
            CASE search.direction = "Outgoing" -> EdgeContainer_edges_from(g.edges, vertex)
              [] search.direction = "Incoming" -> EdgeContainer_edges_to(g.edges, vertex)
              [] OTHER -> EdgeContainer_edges_adjacent(g.edges, vertex)
        HasLabel(edge_id) ==
            LET w == EdgeContainer_get(g.edges, edge_id)
            IN  IsSome(w) /\ LabelOf(Unwrap(w)) = Unwrap(search.label)
        filtered_keys ==
            IF IsSome(search.label) THEN SelectSeq(candidate_edges, HasLabel)
            ELSE candidate_edges
    IN  EdgeIter_collect(g, filtered_keys, 1, 0, Search_limit(search))

(* ------------------------------- state ---------------------------------- *)
VARIABLES
    instance,     \* the instance the behaviour drives: "graph", "container", "hash", "range", "pair", "query"
    graph,        \* SlotMapGraph: [vertices, edges, vertex_query]
    container,    \* Container<T>
    given_v,      \* history: every VertexId add_vertex has returned
    live_v,       \* history: VertexId -> payload, for the vertices added and not removed
    given_e,      \* history: every EdgeId add_edge has returned
    live_e,       \* history: EdgeId -> [weight, from, to], for the edges added and not removed
    cascaded,     \* history: what the latest remove_vertex or clear call has removed
    given_c,      \* history: every key Container::insert has returned
    live_c,       \* history: key -> value, for the values inserted and not removed
    hash_index,   \* HashIndex<K, VertexId>
    range_index,  \* RangeIndex<K, VertexId>
    hash_pairs,   \* history: the (key, value) pairs inserted into hash_index and not removed
    range_pairs,  \* history: the (key, value) pairs inserted into range_index and not removed
    ret,          \* the last index call and what it returned: [op, key, value, ret]
    query,        \* SimpleVertexQuery: [string_index, int_index, int_range_index]
    query_strings, \* history: the (string, id) pairs insert_string has added and nothing removed
    query_ints,   \* history: the (integer, id) pairs insert_int has added and nothing removed
    call          \* the remove_vertex call in progress: [pc, id, edges_to_remove, before]

vars == <<instance, graph, container, given_v, live_v, given_e, live_e, cascaded, given_c, live_c,
          hash_index, range_index, hash_pairs, range_pairs, ret,
          query, query_strings, query_ints, call>>

graph_vars == <<graph, given_v, live_v, given_e, live_e, cascaded>>
container_vars == <<container, given_c, live_c>>
query_vars == <<query, query_strings, query_ints>>
index_vars == <<hash_index, range_index, hash_pairs, range_pairs, ret, query_vars>>
store_vars == <<instance, graph_vars, container_vars, call>>

\* the ids stored in an index
IndexValues == {VertexId_new([idx |-> i, version |-> 1]) : i \in 1..NumValues}

Returned(op, key, value, r) == [op |-> op, key |-> key, value |-> value, ret |-> r]

(* The history variables follow the calls, not the slots: a map from the   *)
(* handle a call returned to what was stored under it.                     *)
EmptyMap == [x \in {} |-> 0]
MapPut(f, k, v) == [x \in DOMAIN f \cup {k} |-> IF x = k THEN v ELSE f[x]]
MapSet(f, k, v) == IF k \in DOMAIN f THEN [f EXCEPT ![k] = v] ELSE f
MapDrop(f, ks) == [x \in DOMAIN f \ ks |-> f[x]]

\* no remove_vertex call is in progress
NoCall == [pc |-> "idle", id |-> VertexId_default, edges_to_remove |-> <<>>,
           before |-> SlotMapGraph_new]

Fresh ==
    /\ graph = SlotMapGraph_new
    /\ container = Container_new
    /\ given_v = {} /\ live_v = EmptyMap
    /\ given_e = {} /\ live_e = EmptyMap
    /\ cascaded = [op |-> "none", vertex_live |-> FALSE, edges |-> 0, self_loops |-> 0]
    /\ given_c = {} /\ live_c = EmptyMap
    /\ hash_index = HashIndex_new
    /\ range_index = RangeIndex_new
    /\ hash_pairs = {} /\ range_pairs = {}
    /\ ret = Returned("new", 0, DefaultKey, FALSE)
    /\ query = SimpleVertexQuery_new
    /\ query_strings = {} /\ query_ints = {}
    /\ call = NoCall

Init == instance \in {"graph", "container"} /\ Fresh

InitIndex == instance \in {"hash", "range"} /\ Fresh

(* ---------------------------- graph actions ----------------------------- *)
AddVertex(vertex) ==
    /\ instance = "graph"
    /\ SlotMap_has_room(graph.vertices.data, MaxVertexSlots)
    /\ LET r == Graph_add_vertex(graph, vertex)
       IN  /\ graph' = r.graph
           /\ given_v' = given_v \cup {r.id}
           /\ live_v' = MapPut(live_v, r.id, vertex)
    /\ UNCHANGED <<instance, given_e, live_e, cascaded, container_vars, index_vars, call>>

AddEdge(from, to, edge) ==
    /\ instance = "graph"
    /\ SlotMap_has_room(graph.edges.data, MaxEdgeSlots)
    /\ LET r == Graph_add_edge(graph, from, to, edge)
       IN  /\ graph' = r.graph
           /\ given_e' = given_e \cup {r.id}
           /\ live_e' = MapPut(live_e, r.id, [weight |-> edge, from |-> from, to |-> to])
    /\ UNCHANGED <<instance, given_v, live_v, cascaded, container_vars, index_vars, call>>

VertexMut(id, vertex) ==
    /\ instance = "graph"
    /\ graph' = Graph_vertex_mut_set(graph, id, vertex)
    /\ live_v' = MapSet(live_v, id, vertex)
    /\ UNCHANGED <<instance, given_v, given_e, live_e, cascaded, container_vars, index_vars, call>>

EdgeMut(id, edge) ==
    /\ instance = "graph"
    /\ graph' = Graph_edge_mut_set(graph, id, edge)
    /\ live_e' = IF id \in DOMAIN live_e
                 THEN [live_e EXCEPT ![id].weight = edge] ELSE live_e
    /\ UNCHANGED <<instance, given_v, live_v, given_e, cascaded, container_vars, index_vars, call>>

RemoveVertex(id) ==
    /\ instance = "graph"
    /\ LET r == Graph_remove_vertex(graph, id)
           \* the edge ids the call hands to EdgeContainer::remove
           removed == Range(EdgeContainer_edges_adjacent(graph.edges, id))
       IN  /\ graph' = r.graph
           /\ live_e' = MapDrop(live_e, removed)
           /\ cascaded' = [op |-> "remove_vertex",
                            vertex_live |-> (id \in DOMAIN live_v),
                            edges |-> Cardinality(removed),
                            self_loops |-> Cardinality({e \in removed \cap DOMAIN live_e :
                                                         live_e[e].from = live_e[e].to})]
    /\ live_v' = MapDrop(live_v, {id})
    /\ UNCHANGED <<instance, given_v, given_e, container_vars, index_vars, call>>

RemoveEdge(id) ==
    /\ instance = "graph"
    /\ LET r == Graph_remove_edge(graph, id)
       IN  graph' = r.graph
    /\ live_e' = MapDrop(live_e, {id})
    /\ UNCHANGED <<instance, given_v, live_v, given_e, cascaded, container_vars, index_vars, call>>

Clear ==
    /\ instance = "graph"
    /\ graph' = Graph_clear(graph)
    /\ live_v' = EmptyMap
    /\ live_e' = EmptyMap
    /\ cascaded' = [op |-> "clear", vertex_live |-> FALSE,
                    edges |-> Cardinality(DOMAIN live_e), self_loops |-> 0]
    /\ UNCHANGED <<instance, given_v, given_e, container_vars, index_vars, call>>

(* -------------------------- container actions --------------------------- *)
ContainerInsert(value) ==
    /\ instance = "container"
    /\ SlotMap_has_room(container.data, MaxVertexSlots)
    /\ LET r == Container_insert(container, value)
       IN  /\ container' = r.container
           /\ given_c' = given_c \cup {r.id}
           /\ live_c' = MapPut(live_c, r.id, value)
    /\ UNCHANGED <<instance, graph_vars, index_vars, call>>

ContainerGetMut(key, value) ==
    /\ instance = "container"
    /\ container' = Container_get_mut_set(container, key, value)
    /\ live_c' = MapSet(live_c, key, value)
    /\ UNCHANGED <<instance, given_c, graph_vars, index_vars, call>>

ContainerRemove(key) ==
    /\ instance = "container"
    /\ LET r == Container_remove(container, key)
       IN  container' = r.container
    /\ live_c' = MapDrop(live_c, {key})
    /\ UNCHANGED <<instance, given_c, graph_vars, index_vars, call>>

ContainerClear ==
    /\ instance = "container"
    /\ container' = Container_clear(container)
    /\ live_c' = EmptyMap
    /\ UNCHANGED <<instance, given_c, graph_vars, index_vars, call>>

Next ==
    \/ \E vertex \in Payloads : AddVertex(vertex)
    \/ \E from \in EndpointIds, to \in EndpointIds, edge \in Payloads : AddEdge(from, to, edge)
    \/ \E id \in VertexIds, vertex \in Payloads : VertexMut(id, vertex)
    \/ \E id \in EdgeIds, edge \in Payloads : EdgeMut(id, edge)
    \/ \E id \in VertexIds : RemoveVertex(id)
    \/ \E id \in EdgeIds : RemoveEdge(id)
    \/ Clear
    \/ \E value \in Payloads : ContainerInsert(value)
    \/ \E key \in VertexIds, value \in Payloads : ContainerGetMut(key, value)
    \/ \E key \in VertexIds : ContainerRemove(key)
    \/ ContainerClear

Spec == Init /\ [][Next]_vars

(* The behaviours of a graph whose add_edge calls name two vertices that   *)
(* are live at the moment of the call.                                     *)
InitLive == instance = "graph" /\ Fresh

LiveVertices(g) == {v \in VertexIds : Graph_contains_vertex(g, v)}

NextLive ==
    \/ \E vertex \in Payloads : AddVertex(vertex)
    \/ \E from \in LiveVertices(graph), to \in LiveVertices(graph), edge \in Payloads :
          AddEdge(from, to, edge)
    \/ \E id \in VertexIds : RemoveVertex(id)
    \/ \E id \in EdgeIds : RemoveEdge(id)
    \/ Clear

SpecLive == InitLive /\ [][NextLive]_vars

(* ------------------- the graph with its vertex indices ------------------ *)
IndexVertexString(vertex_id, value) ==
    /\ instance = "graph"
    /\ graph' = Graph_index_vertex_string(graph, vertex_id, value)
    /\ UNCHANGED <<instance, given_v, live_v, given_e, live_e, cascaded, container_vars,
                   index_vars, call>>

IndexVertexInt(vertex_id, value) ==
    /\ instance = "graph"
    /\ graph' = Graph_index_vertex_int(graph, vertex_id, value)
    /\ UNCHANGED <<instance, given_v, live_v, given_e, live_e, cascaded, container_vars,
                   index_vars, call>>

\* vertex_query_mut().remove_vertex(vertex_id)
QueryMutRemoveVertex(vertex_id) ==
    /\ instance = "graph"
    /\ graph' = Graph_vertex_query_mut_set(
                    graph, SimpleVertexQuery_remove_vertex(Graph_vertex_query(graph), vertex_id))
    /\ UNCHANGED <<instance, given_v, live_v, given_e, live_e, cascaded, container_vars,
                   index_vars, call>>

\* vertex_query_mut().clear()
QueryMutClear ==
    /\ instance = "graph"
    /\ graph' = Graph_vertex_query_mut_set(graph,
                                           SimpleVertexQuery_clear(Graph_vertex_query(graph)))
    /\ UNCHANGED <<instance, given_v, live_v, given_e, live_e, cascaded, container_vars,
                   index_vars, call>>

(* The behaviours of a graph whose first vertex is indexed by hand: the     *)
(* payloads are written once, the edges leave the first vertex, and one    *)
(* string and one integer serve as index keys.                             *)
InitIndexed == instance = "graph" /\ Fresh

FirstVertex == VertexId_new([idx |-> 1, version |-> 1])

NextIndexed ==
    \/ AddVertex(1)
    \/ \E to \in EndpointIds : AddEdge(FirstVertex, to, 1)
    \/ \E id \in EndpointIds : VertexMut(id, 2)
    \/ \E id \in EdgeIds : EdgeMut(id, 2)
    \/ \E id \in EndpointIds : RemoveVertex(id)
    \/ \E id \in EdgeIds : RemoveEdge(id)
    \/ Clear
    \/ IndexVertexString(FirstVertex, 1)
    \/ IndexVertexInt(FirstVertex, 0)
    \/ QueryMutRemoveVertex(FirstVertex)
    \/ QueryMutClear

SpecIndexed == InitIndexed /\ [][NextIndexed]_vars

(* --------------------- remove_vertex, step by step ---------------------- *)
(* The call collects edges_to_remove, removes these edges one by one and   *)
(* then removes the vertex; no other call runs in between (&mut self).     *)
\* let edges_to_remove: Vec<EdgeId> = self.edges.edges_adjacent(id).collect();
RemoveVertexCollect(id) ==
    /\ instance = "graph"
    /\ call.pc = "idle"
    /\ call' = [pc |-> "edges", id |-> id,
                edges_to_remove |-> EdgeContainer_edges_adjacent(graph.edges, id),
                before |-> graph]
    /\ UNCHANGED <<instance, graph_vars, container_vars, index_vars>>

\* one turn of the loop: self.edges.remove(edge_id)
RemoveVertexNextEdge ==
    /\ instance = "graph"
    /\ call.pc = "edges"
    /\ call.edges_to_remove /= <<>>
    /\ LET edge_id == Head(call.edges_to_remove)
       IN  /\ graph' = [graph EXCEPT !.edges = EdgeContainer_remove(graph.edges, edge_id).container]
           /\ live_e' = MapDrop(live_e, {edge_id})
    /\ call' = [call EXCEPT !.edges_to_remove = Tail(call.edges_to_remove)]
    /\ UNCHANGED <<instance, given_v, live_v, given_e, cascaded, container_vars, index_vars>>

\* the loop is over: self.vertices.remove(id)
RemoveVertexSlot ==
    /\ instance = "graph"
    /\ call.pc = "edges"
    /\ call.edges_to_remove = <<>>
    /\ graph' = [graph EXCEPT !.vertices = VertexContainer_remove(graph.vertices, call.id).container]
    /\ live_v' = MapDrop(live_v, {call.id})
    /\ call' = NoCall
    /\ UNCHANGED <<instance, given_v, given_e, live_e, cascaded, container_vars, index_vars>>

InitCascade == instance = "graph" /\ Fresh

NextCascade ==
    \/ /\ call.pc = "idle"
       /\ \/ AddVertex(1)
          \/ \E from \in EndpointIds, to \in EndpointIds : AddEdge(from, to, 1)
          \/ \E id \in EdgeIds : RemoveEdge(id)
          \/ Clear
    \/ \E id \in VertexIds : RemoveVertexCollect(id)
    \/ RemoveVertexNextEdge
    \/ RemoveVertexSlot

SpecCascade == InitCascade /\ [][NextCascade]_vars

(* ------------------ an EdgeContainer driven on its own ------------------ *)
(* graph.edges is the container under test; given_e and live_e follow the *)
(* calls.                                                                  *)
InitEdges == instance = "edges" /\ Fresh

\* the EdgeInfo records and the (edge, info) items a caller passes
EdgeInfos == {EdgeInfo_new(EdgeId_default, from, to) : from \in EndpointIds, to \in EndpointIds}
EdgeItems == [edge : Payloads, info : EdgeInfos]
RetainPredicates ==
    [by : {"id"}, v : EdgeIds] \cup [by : {"edge"}, v : Payloads]
    \cup [by : {"from", "to"}, v : EndpointIds]

LiveEdge(item) == [weight |-> item.edge, from |-> item.info.from, to |-> item.info.to]

EdgeInsert(edge, edge_info) ==
    /\ instance = "edges"
    /\ SlotMap_has_room(graph.edges.data, MaxEdgeSlots)
    /\ LET r == EdgeContainer_insert(graph.edges, edge, edge_info)
       IN  /\ graph' = [graph EXCEPT !.edges = r.container]
           /\ given_e' = given_e \cup {r.id}
           /\ live_e' = MapPut(live_e, r.id, LiveEdge([edge |-> edge, info |-> edge_info]))
           /\ ret' = Returned("edge_insert", 1, r.id, TRUE)
    /\ UNCHANGED <<instance, given_v, live_v, cascaded, container_vars, call,
                   hash_index, range_index, hash_pairs, range_pairs, query_vars>>

EdgeInsertIter(items) ==
    /\ instance = "edges"
    /\ LET r == EdgeContainer_insert_iter(graph.edges, items)
       IN  /\ \A i \in 1..Len(r.ids) :
                 r.ids[i].idx <= MaxEdgeSlots /\ r.ids[i].version <= LastVersion
           /\ graph' = [graph EXCEPT !.edges = r.container]
           /\ given_e' = given_e \cup Range(r.ids)
           /\ live_e' = [e \in DOMAIN live_e \cup Range(r.ids) |->
                            IF e \in Range(r.ids)
                            THEN LiveEdge(items[CHOOSE i \in 1..Len(items) : r.ids[i] = e])
                            ELSE live_e[e]]
           /\ ret' = Returned("edge_insert_iter", Len(r.ids), r.ids[Len(r.ids)], TRUE)
    /\ UNCHANGED <<instance, given_v, live_v, cascaded, container_vars, call,
                   hash_index, range_index, hash_pairs, range_pairs, query_vars>>

EdgeRemove(id) ==
    /\ instance = "edges"
    /\ LET r == EdgeContainer_remove(graph.edges, id)
       IN  /\ graph' = [graph EXCEPT !.edges = r.container]
           /\ ret' = Returned("edge_remove", 1, id, IsSome(r.value))
    /\ live_e' = MapDrop(live_e, {id})
    /\ UNCHANGED <<instance, given_v, live_v, given_e, cascaded, container_vars, call,
                   hash_index, range_index, hash_pairs, range_pairs, query_vars>>

EdgeRetain(p) ==
    /\ instance = "edges"
    /\ graph' = [graph EXCEPT !.edges = EdgeContainer_retain(graph.edges, p)]
    /\ LET Dropped(e) ==
              ~Predicate(p, e, live_e[e].weight,
                         EdgeInfo_new(EdgeId_default, live_e[e].from, live_e[e].to))
           dropped == {e \in DOMAIN live_e : Dropped(e)}
       IN  /\ live_e' = MapDrop(live_e, dropped)
           /\ ret' = Returned("edge_retain", Cardinality(dropped), EdgeId_default,
                              dropped /= {})
    /\ UNCHANGED <<instance, given_v, live_v, given_e, cascaded, container_vars, call,
                   hash_index, range_index, hash_pairs, range_pairs, query_vars>>

EdgeClear ==
    /\ instance = "edges"
    /\ graph' = [graph EXCEPT !.edges = EdgeContainer_clear(graph.edges)]
    /\ live_e' = EmptyMap
    /\ ret' = Returned("edge_clear", Cardinality(DOMAIN live_e), EdgeId_default, FALSE)
    /\ UNCHANGED <<instance, given_v, live_v, given_e, cascaded, container_vars, call,
                   hash_index, range_index, hash_pairs, range_pairs, query_vars>>

NextEdges ==
    \/ \E item \in EdgeItems : EdgeInsert(item.edge, item.info)
    \/ \E first \in EdgeItems, second \in EdgeItems : EdgeInsertIter(<<first, second>>)
    \/ \E id \in EdgeIds : EdgeRemove(id)
    \/ \E p \in RetainPredicates : EdgeRetain(p)
    \/ EdgeClear

SpecEdges == InitEdges /\ [][NextEdges]_vars

(* ----------------------------- index actions --------------------------- *)
HashInsert(key, value) ==
    /\ instance = "hash"
    /\ LET r == HashIndex_insert(hash_index, key, value)
       IN  /\ hash_index' = r.index
           /\ ret' = Returned("hash_insert", key, value, r.ret)
    /\ hash_pairs' = hash_pairs \cup {<<key, value>>}
    /\ UNCHANGED <<range_index, range_pairs, store_vars, query_vars>>

HashRemove(key, value) ==
    /\ instance = "hash"
    /\ LET r == HashIndex_remove(hash_index, key, value)
       IN  /\ hash_index' = r.index
           /\ ret' = Returned("hash_remove", key, value, r.ret)
    /\ hash_pairs' = hash_pairs \ {<<key, value>>}
    /\ UNCHANGED <<range_index, range_pairs, store_vars, query_vars>>

HashRemoveAll(key) ==
    /\ instance = "hash"
    /\ LET r == HashIndex_remove_all(hash_index, key)
       IN  /\ hash_index' = r.index
           /\ ret' = Returned("hash_remove_all", key, DefaultKey, IsSome(r.ret))
    /\ hash_pairs' = {p \in hash_pairs : p[1] /= key}
    /\ UNCHANGED <<range_index, range_pairs, store_vars, query_vars>>

HashClear ==
    /\ instance = "hash"
    /\ hash_index' = HashIndex_clear(hash_index)
    /\ ret' = Returned("hash_clear", 0, DefaultKey, FALSE)
    /\ hash_pairs' = {}
    /\ UNCHANGED <<range_index, range_pairs, store_vars, query_vars>>

RangeInsert(key, value) ==
    /\ instance = "range"
    /\ LET r == RangeIndex_insert(range_index, key, value)
       IN  /\ range_index' = r.index
           /\ ret' = Returned("range_insert", key, value, r.ret)
    /\ range_pairs' = range_pairs \cup {<<key, value>>}
    /\ UNCHANGED <<hash_index, hash_pairs, store_vars, query_vars>>

RangeRemove(key, value) ==
    /\ instance = "range"
    /\ LET r == RangeIndex_remove(range_index, key, value)
       IN  /\ range_index' = r.index
           /\ ret' = Returned("range_remove", key, value, r.ret)
    /\ range_pairs' = range_pairs \ {<<key, value>>}
    /\ UNCHANGED <<hash_index, hash_pairs, store_vars, query_vars>>

RangeClear ==
    /\ instance = "range"
    /\ range_index' = RangeIndex_clear(range_index)
    /\ ret' = Returned("range_clear", 0, DefaultKey, FALSE)
    /\ range_pairs' = {}
    /\ UNCHANGED <<hash_index, hash_pairs, store_vars, query_vars>>

NextIndex ==
    \/ \E key \in IndexKeys, value \in IndexValues : HashInsert(key, value)
    \/ \E key \in IndexKeys, value \in IndexValues : HashRemove(key, value)
    \/ \E key \in IndexKeys : HashRemoveAll(key)
    \/ HashClear
    \/ \E key \in IndexKeys, value \in IndexValues : RangeInsert(key, value)
    \/ \E key \in IndexKeys, value \in IndexValues : RangeRemove(key, value)
    \/ RangeClear

SpecIndex == InitIndex /\ [][NextIndex]_vars

(* ------------- a HashIndex and a RangeIndex driven together ------------- *)
(* Every call is made on both indices; ret keeps what each returned.       *)
InitPair == instance = "pair" /\ Fresh

PairInsert(key, value) ==
    /\ instance = "pair"
    /\ LET h == HashIndex_insert(hash_index, key, value)
           r == RangeIndex_insert(range_index, key, value)
       IN  /\ hash_index' = h.index
           /\ range_index' = r.index
           /\ ret' = [op |-> "pair_insert", key |-> key, value |-> value,
                      ret |-> h.ret, range_ret |-> r.ret]
    /\ hash_pairs' = hash_pairs \cup {<<key, value>>}
    /\ range_pairs' = range_pairs \cup {<<key, value>>}
    /\ UNCHANGED <<store_vars, query_vars>>

PairRemove(key, value) ==
    /\ instance = "pair"
    /\ LET h == HashIndex_remove(hash_index, key, value)
           r == RangeIndex_remove(range_index, key, value)
       IN  /\ hash_index' = h.index
           /\ range_index' = r.index
           /\ ret' = [op |-> "pair_remove", key |-> key, value |-> value,
                      ret |-> h.ret, range_ret |-> r.ret]
    /\ hash_pairs' = hash_pairs \ {<<key, value>>}
    /\ range_pairs' = range_pairs \ {<<key, value>>}
    /\ UNCHANGED <<store_vars, query_vars>>

NextPair ==
    \/ \E key \in IndexKeys, value \in IndexValues : PairInsert(key, value)
    \/ \E key \in IndexKeys, value \in IndexValues : PairRemove(key, value)

SpecPair == InitPair /\ [][NextPair]_vars

(* -------------------- behaviours of a SimpleVertexQuery ----------------- *)
InitQuery == instance = "query" /\ Fresh

\* the number of the three indices that hold vertex_id under some key
HoldingIndices(q, vertex_id) ==
    Cardinality({name \in {"string_index", "int_index", "int_range_index"} :
                    \E k \in DOMAIN q[name] : vertex_id \in q[name][k]})

QueryInsertString(value, vertex_id) ==
    /\ instance = "query"
    /\ query' = SimpleVertexQuery_insert_string(query, value, vertex_id)
    /\ query_strings' = query_strings \cup {<<value, vertex_id>>}
    /\ ret' = Returned("insert_string", value, vertex_id, FALSE)
    /\ UNCHANGED <<query_ints, hash_index, range_index, hash_pairs, range_pairs, store_vars>>

QueryInsertInt(value, vertex_id) ==
    /\ instance = "query"
    /\ query' = SimpleVertexQuery_insert_int(query, value, vertex_id)
    /\ query_ints' = query_ints \cup {<<value, vertex_id>>}
    /\ ret' = Returned("insert_int", value, vertex_id, FALSE)
    /\ UNCHANGED <<query_strings, hash_index, range_index, hash_pairs, range_pairs, store_vars>>

QueryRemoveVertex(vertex_id) ==
    /\ instance = "query"
    /\ query' = SimpleVertexQuery_remove_vertex(query, vertex_id)
    /\ query_strings' = {p \in query_strings : p[2] /= vertex_id}
    /\ query_ints' = {p \in query_ints : p[2] /= vertex_id}
    /\ ret' = Returned("remove_vertex", HoldingIndices(query, vertex_id), vertex_id, FALSE)
    /\ UNCHANGED <<hash_index, range_index, hash_pairs, range_pairs, store_vars>>

QueryClear ==
    /\ instance = "query"
    /\ query' = SimpleVertexQuery_clear(query)
    /\ query_strings' = {} /\ query_ints' = {}
    /\ ret' = Returned("clear", 0, DefaultKey, FALSE)
    /\ UNCHANGED <<hash_index, range_index, hash_pairs, range_pairs, store_vars>>

NextQuery ==
    \/ \E value \in StringKeys, vertex_id \in IndexValues : QueryInsertString(value, vertex_id)
    \/ \E value \in IntKeys, vertex_id \in IndexValues : QueryInsertInt(value, vertex_id)
    \/ \E vertex_id \in IndexValues : QueryRemoveVertex(vertex_id)
    \/ QueryClear

SpecQuery == InitQuery /\ [][NextQuery]_vars

(* ------------------------------- claims --------------------------------- *)
\* the handles a store has handed out and that are no longer live
Removed(given, live) == given \ DOMAIN live

\* C1: a handle that was removed resolves to nothing in every later state of a
\* VertexContainer, EdgeContainer or Container: get, get_mut, contains and a
\* second remove all report not-found, also after its slot is reused.
C1_GenerationalSafety ==
    /\ \A h \in Removed(given_v, live_v) :
          /\ VertexContainer_get(graph.vertices, h) = None
          /\ ~VertexContainer_contains(graph.vertices, h)
          /\ VertexContainer_remove(graph.vertices, h).value = None
          /\ \A p \in Payloads :
                VertexContainer_get_mut_set(graph.vertices, h, p) = graph.vertices
    /\ \A h \in Removed(given_e, live_e) :
          /\ EdgeContainer_get(graph.edges, h) = None
          /\ EdgeContainer_get_connection(graph.edges, h) = None
          /\ ~EdgeContainer_contains(graph.edges, h)
          /\ EdgeContainer_remove(graph.edges, h).value = None
          /\ \A p \in Payloads :
                EdgeContainer_get_mut_set(graph.edges, h, p) = graph.edges
    /\ \A h \in Removed(given_c, live_c) :
          /\ Container_get(container, h) = None
          /\ ~Container_contains(container, h)
          /\ Container_remove(container, h).value = None
          /\ \A p \in Payloads : Container_get_mut_set(container, h, p) = container

\* a removed vertex handle and a removed edge handle whose slots hold a later insert
C1_Witness ==
    /\ \E h \in Removed(given_v, live_v), h2 \in DOMAIN live_v :
          h2.idx = h.idx /\ live_v[h2] = NumPayloads
    /\ \E h \in Removed(given_e, live_e), h2 \in DOMAIN live_e : h2.idx = h.idx

\* C2: a live handle resolves to the payload it was inserted with, or to the
\* latest value written through get_mut / vertex_mut / edge_mut on that handle,
\* whatever was done to other handles.
C2_LiveHandleResolves ==
    /\ \A h \in DOMAIN live_v :
          /\ VertexContainer_get(graph.vertices, h) = Some(live_v[h])
          /\ Graph_vertex(graph, h) = Some([id |-> h, weight |-> live_v[h]])
    /\ \A h \in DOMAIN live_e :
          /\ EdgeContainer_get(graph.edges, h) = Some(live_e[h].weight)
          /\ IsSome(Graph_edge(graph, h))
          /\ Unwrap(Graph_edge(graph, h)).weight = live_e[h].weight
    /\ \A h \in DOMAIN live_c : Container_get(container, h) = Some(live_c[h])

\* two live vertices with different payloads beside a removed one, and the same for edges
C2_Witness ==
    /\ \E h \in DOMAIN live_v, h2 \in DOMAIN live_v :
          live_v[h] /= live_v[h2] /\ Removed(given_v, live_v) /= {}
    /\ \E h \in DOMAIN live_e, h2 \in DOMAIN live_e :
          live_e[h].weight /= live_e[h2].weight /\ Removed(given_e, live_e) /= {}

\* the live edges that have v as an endpoint
Incident(v) == {e \in DOMAIN live_e : live_e[e].from = v \/ live_e[e].to = v}

\* C3: remove_vertex of a live vertex v returns v's payload; afterwards v is
\* not contained, no live edge has v as an endpoint, edge_count has dropped by
\* the number of edges incident to v (a self-loop once), and every other
\* vertex and every edge not incident to v is there as before.
C3_RemoveVertexCascade ==
    [][\A v \in DOMAIN live_v : RemoveVertex(v) =>
          /\ Graph_remove_vertex(graph, v).value = Some(live_v[v])
          /\ ~Graph_contains_vertex(graph', v)
          /\ Graph_vertex(graph', v) = None
          /\ \A e \in EdgeIds : Graph_contains_edge(graph', e) =>
                /\ Graph_edge_from(graph', e) /= Some(v)
                /\ Graph_edge_to(graph', e) /= Some(v)
          /\ Incident(v)' = {}
          /\ Graph_edge_count(graph') = Graph_edge_count(graph) - Cardinality(Incident(v))
          /\ Graph_vertex_count(graph') = Graph_vertex_count(graph) - 1
          /\ \A u \in DOMAIN live_v \ {v} :
                /\ Graph_contains_vertex(graph', u)
                /\ Graph_vertex(graph', u) = Graph_vertex(graph, u)
          /\ \A e \in DOMAIN live_e \ Incident(v) :
                /\ Graph_contains_edge(graph', e)
                /\ Graph_edge(graph', e) = Graph_edge(graph, e)
    ]_vars

\* the latest remove_vertex took a live vertex with a self-loop and one more
\* edge, and a vertex and an edge are live
C3_Witness ==
    /\ cascaded.op = "remove_vertex"
    /\ cascaded.vertex_live
    /\ cascaded.self_loops = 1
    /\ cascaded.edges = 2
    /\ DOMAIN live_e /= {}
    /\ DOMAIN live_v /= {}

\* C4: remove with a handle that is stale, was never issued or is the default
\* returns None and leaves the vertex store, the edge store and the Container
\* as they were; lookups with such a handle find nothing.
C4_RemoveMissIsNoOp ==
    /\ \A h \in VertexIds \ DOMAIN live_v :
          /\ VertexContainer_remove(graph.vertices, h) =
                [container |-> graph.vertices, value |-> None]
          /\ VertexContainer_get(graph.vertices, h) = None
          /\ ~VertexContainer_contains(graph.vertices, h)
    /\ \A h \in EdgeIds \ DOMAIN live_e :
          /\ EdgeContainer_remove(graph.edges, h) =
                [container |-> graph.edges, value |-> None]
          /\ Graph_remove_edge(graph, h) = [graph |-> graph, value |-> None]
          /\ EdgeContainer_get(graph.edges, h) = None
          /\ EdgeContainer_get_connection(graph.edges, h) = None
    /\ \A h \in VertexIds \ DOMAIN live_c :
          /\ Container_remove(container, h) = [container |-> container, value |-> None]
          /\ Container_get(container, h) = None

\* a full vertex store and a full edge store, each with a stale handle and a
\* never-issued handle pointing at occupied slots
C4_Witness ==
    /\ \E h \in Removed(given_v, live_v), n \in VertexIds \ given_v :
          /\ n /= VertexId_default
          /\ VertexContainer_len(graph.vertices) = MaxVertexSlots
    /\ \E h \in Removed(given_e, live_e), n \in EdgeIds \ given_e :
          /\ n /= EdgeId_default
          /\ EdgeContainer_len(graph.edges) = MaxEdgeSlots

LiveFrom(a) == {e \in DOMAIN live_e : live_e[e].from = a}
LiveTo(b) == {e \in DOMAIN live_e : live_e[e].to = b}
LiveAt(v) == LiveFrom(v) \cup LiveTo(v)
LiveBetween(a, b) == LiveFrom(a) \cap LiveTo(b)

\* C6: edges_from, edges_to, edges_adjacent, edges_involving and edges_between
\* yield exactly the live edge ids with the matching endpoints, each once, and
\* never a removed edge or an edge of the opposite direction.
C6_EdgeQueriesExact ==
    \A a \in VertexIds :
       /\ Range(EdgeContainer_edges_from(graph.edges, a)) = LiveFrom(a)
       /\ NoDup(EdgeContainer_edges_from(graph.edges, a))
       /\ Range(EdgeContainer_edges_to(graph.edges, a)) = LiveTo(a)
       /\ NoDup(EdgeContainer_edges_to(graph.edges, a))
       /\ Range(EdgeContainer_edges_adjacent(graph.edges, a)) = LiveAt(a)
       /\ NoDup(EdgeContainer_edges_adjacent(graph.edges, a))
       /\ Range(EdgeContainer_edges_involving(graph.edges, a)) = LiveAt(a)
       /\ NoDup(EdgeContainer_edges_involving(graph.edges, a))
       /\ \A b \in VertexIds :
             /\ Range(EdgeContainer_edges_between(graph.edges, a, b)) = LiveBetween(a, b)
             /\ NoDup(EdgeContainer_edges_between(graph.edges, a, b))
             /\ Range(Graph_edges_between(graph, a, b)) = LiveBetween(a, b)
             /\ NoDup(Graph_edges_between(graph, a, b))

\* a live edge a -> b beside a live self-loop on a, after an edge was removed
C6_Witness ==
    \E a \in VertexIds, b \in VertexIds :
       /\ a /= b
       /\ LiveBetween(a, b) /= {}
       /\ LiveBetween(b, a) = {}
       /\ LiveBetween(a, a) /= {}
       /\ Removed(given_e, live_e) /= {}

C8_HasEdgeExact ==
    \A a \in VertexIds, b \in VertexIds :
       /\ EdgeContainer_has_edge_between(graph.edges, a, b) <=> LiveBetween(a, b) /= {}
       /\ Graph_has_edge(graph, a, b) <=> LiveBetween(a, b) /= {}
       /\ Graph_has_edge(graph, a, b) <=>
             EdgeContainer_edges_between(graph.edges, a, b) /= <<>>
       /\ Graph_has_edge(graph, a, b) <=>
             IsSome(EdgeContainer_get_edge_between(graph.edges, a, b))
       /\ IsSome(EdgeContainer_get_edge_between(graph.edges, a, b)) =>
             Unwrap(EdgeContainer_get_edge_between(graph.edges, a, b)) \in LiveBetween(a, b)

\* only an edge b -> a is left, in a slot whose earlier edge was removed
C8_Witness ==
    \E a \in VertexIds, b \in VertexIds, e \in DOMAIN live_e :
       /\ a /= b
       /\ DOMAIN live_e = {e}
       /\ live_e[e].from = b /\ live_e[e].to = a
       /\ ~Graph_has_edge(graph, a, b)
       /\ \E r \in Removed(given_e, live_e) : r.idx = e.idx

\* the values the calls so far have left under key k
PairsOf(pairs, k) == {p[2] : p \in {q \in pairs : q[1] = k}}

\* C9: insert(k, v) on a HashIndex or RangeIndex returns true exactly when the
\* pair was not present before the call; inserting a present pair leaves the
\* index unchanged, and the values under k count v once.
C9_InsertIdempotent ==
    [][\A k \in IndexKeys, v \in IndexValues :
          /\ HashInsert(k, v) =>
                /\ ret'.ret <=> <<k, v>> \notin hash_pairs
                /\ ret'.ret <=> ~HashIndex_contains(hash_index, k, v)
                /\ <<k, v>> \in hash_pairs => hash_index' = hash_index
                /\ HashIndex_contains(hash_index', k, v)
                /\ HashIndex_len_of(hash_index', k) =
                      Cardinality(PairsOf(hash_pairs, k) \cup {v})
          /\ RangeInsert(k, v) =>
                /\ ret'.ret <=> <<k, v>> \notin range_pairs
                /\ ret'.ret <=> v \notin RangeIndex_get(range_index, k)
                /\ <<k, v>> \in range_pairs => range_index' = range_index
                /\ RangeIndex_get(range_index', k) = PairsOf(range_pairs, k) \cup {v}
    ]_vars

\* an insert of a pair that was already present has just returned false
C9_Witness ==
    /\ ret.op = "hash_insert"
    /\ ~ret.ret
    /\ HashIndex_len_of(hash_index, ret.key) = 1
    /\ HashIndex_contains(hash_index, ret.key, ret.value)

\* C10: no key of a HashIndex or RangeIndex map has an empty value set: a key
\* is present exactly when some value is left under it, so contains_key(k) is
\* len_of(k) > 0 and is false once the last value under k is removed.
C10_NoEmptyKey ==
    /\ \A k \in DOMAIN hash_index.map : hash_index.map[k] /= {}
    /\ \A k \in DOMAIN range_index.map : range_index.map[k] /= {}
    /\ \A k \in IndexKeys :
          /\ HashIndex_contains_key(hash_index, k) <=> HashIndex_len_of(hash_index, k) > 0
          /\ HashIndex_contains_key(hash_index, k) <=> PairsOf(hash_pairs, k) /= {}
          /\ HashIndex_get(hash_index, k) = PairsOf(hash_pairs, k)
          /\ k \in RangeIndex_keys(range_index) <=> RangeIndex_get(range_index, k) /= {}
          /\ k \in RangeIndex_keys(range_index) <=> PairsOf(range_pairs, k) /= {}
          /\ RangeIndex_get(range_index, k) = PairsOf(range_pairs, k)
    /\ HashIndex_keys_len(hash_index) = Cardinality({p[1] : p \in hash_pairs})
    /\ RangeIndex_keys_len(range_index) = Cardinality({p[1] : p \in range_pairs})

\* remove has just taken the last value of a key out of an index that keeps another key
C10_Witness ==
    /\ ret.op = "hash_remove"
    /\ ret.ret
    /\ ~HashIndex_contains_key(hash_index, ret.key)
    /\ HashIndex_keys_len(hash_index) = 1

\* the keys the calls so far have left a value under, and the keys used to probe ranges
StoredKeys(pairs) == {p[1] : p \in pairs}
ProbeKeys == 0..(NumKeys + 1)

\* the range result r visits exactly the given keys, in ascending order, each
\* with the values the calls have left under it
VisitsExactly(r, keys) ==
    /\ ~r.panicked
    /\ Range(VisitedKeys(r)) = keys
    /\ \A i \in 1..Len(r.entries), j \in 1..Len(r.entries) :
          i < j => r.entries[i].key < r.entries[j].key
    /\ \A i \in 1..Len(r.entries) :
          r.entries[i].values = PairsOf(range_pairs, r.entries[i].key)
    /\ Yielded(r) = UNION {PairsOf(range_pairs, k) : k \in keys}

C12_FromToAfterBefore ==
    LET K == StoredKeys(range_pairs)
    IN  \A k \in ProbeKeys :
           LET from == RangeIndex_from(range_index, k)
               to == RangeIndex_to(range_index, k)
               after == RangeIndex_after(range_index, k)
               before == RangeIndex_before(range_index, k)
           IN  /\ from = RangeIndex_range(range_index, Included(k), Unbounded)
               /\ to = RangeIndex_range(range_index, Unbounded, Included(k))
               /\ VisitsExactly(from, {j \in K : j >= k})
               /\ VisitsExactly(to, {j \in K : j <= k})
               /\ VisitsExactly(after, {j \in K : j > k})
               /\ VisitsExactly(before, {j \in K : j < k})
               /\ Range(VisitedKeys(before)) \cap Range(VisitedKeys(from)) = {}
               /\ Range(VisitedKeys(before)) \cup Range(VisitedKeys(from)) = K
               /\ Range(VisitedKeys(to)) \cap Range(VisitedKeys(after)) = {}
               /\ Range(VisitedKeys(to)) \cup Range(VisitedKeys(after)) = K
               /\ VisitedKeys(before) \o VisitedKeys(from) = VisitedKeys(
                     RangeIndex_range(range_index, Unbounded, Unbounded))

\* keys 1, 2 and 3 hold values and the split at key 2 has values on both sides
C12_Witness ==
    /\ StoredKeys(range_pairs) = 1..3
    /\ VisitedKeys(RangeIndex_before(range_index, 2)) = <<1>>
    /\ VisitedKeys(RangeIndex_from(range_index, 2)) = <<2, 3>>
    /\ VisitedKeys(RangeIndex_to(range_index, 2)) = <<1, 2>>
    /\ VisitedKeys(RangeIndex_after(range_index, 2)) = <<3>>

\* the keys of an index map under which id is stored
KeysHolding(map, id) == {k \in DOMAIN map : id \in map[k]}
QueryMaps(q) == {q.string_index, q.int_index, q.int_range_index}

\* C13: after SimpleVertexQuery::remove_vertex(id) no query_string, query_int,
\* range_int, query_value or range_value call yields id, in whichever of the
\* three indices id was; the entries of the other ids are as before and no
\* key is left with an empty set.
C13_RemoveVertexPurges ==
    [][\A id \in IndexValues : QueryRemoveVertex(id) =>
          /\ \A s \in StringKeys :
                SimpleVertexQuery_query_string(query', s) =
                   SimpleVertexQuery_query_string(query, s) \ {id}
          /\ \A x \in I64Values :
                SimpleVertexQuery_query_int(query', x) =
                   SimpleVertexQuery_query_int(query, x) \ {id}
          /\ \A lo \in I64Values, hi \in I64Values : lo <= hi =>
                /\ ~SimpleVertexQuery_range_int(query', lo, hi).panicked
                /\ Yielded(SimpleVertexQuery_range_int(query', lo, hi)) =
                      Yielded(SimpleVertexQuery_range_int(query, lo, hi)) \ {id}
          /\ \A v \in Values :
                /\ id \notin SimpleVertexQuery_query_value(query', v).ids
                /\ \A w \in Values :
                      id \notin SimpleVertexQuery_range_value(query', v, w).ids
          /\ \A map \in QueryMaps(query') : \A k \in DOMAIN map : map[k] /= {}
          /\ \A other \in IndexValues \ {id} :
                /\ KeysHolding(query'.string_index, other) =
                      KeysHolding(query.string_index, other)
                /\ KeysHolding(query'.int_index, other) = KeysHolding(query.int_index, other)
                /\ KeysHolding(query'.int_range_index, other) =
                      KeysHolding(query.int_range_index, other)
    ]_vars

\* remove_vertex has just taken an id out of all three indices while another
\* id stays in the string index and in the integer indices
C13_Witness ==
    /\ ret.op = "remove_vertex"
    /\ ret.key = 3
    /\ \E other \in IndexValues \ {ret.value} :
          /\ KeysHolding(query.string_index, other) /= {}
          /\ KeysHolding(query.int_range_index, other) /= {}
    /\ HoldingIndices(query, ret.value) = 0

\* C14: after insert_int(x, id), query_int(x) and every half-open range_int
\* lo..hi with lo <= x < hi yield id; in every state of a SimpleVertexQuery
\* the integer hash index and the integer range index are the same mapping
\* from key to id set.
C14_IntIndicesAgree ==
    /\ [](/\ query.int_index = query.int_range_index
          /\ \A x \in IntKeys :
                SimpleVertexQuery_query_int(query, x) = PairsOf(query_ints, x))
    /\ [][\A x \in IntKeys, id \in IndexValues : QueryInsertInt(x, id) =>
             /\ id \in SimpleVertexQuery_query_int(query', x)
             /\ \A lo \in I64Values, hi \in I64Values : (lo <= x /\ x < hi) =>
                   /\ ~SimpleVertexQuery_range_int(query', lo, hi).panicked
                   /\ id \in Yielded(SimpleVertexQuery_range_int(query', lo, hi))
       ]_vars

\* insert_int has just stored an id under a second key of both integer indices
C14_Witness ==
    /\ ret.op = "insert_int"
    /\ Cardinality(KeysHolding(query.int_index, ret.value)) = 2
    /\ Cardinality(KeysHolding(query.int_range_index, ret.value)) = 2
    /\ ret.value \in Yielded(SimpleVertexQuery_range_int(query, ret.key, ret.key + 1))

\* C15: the EdgeInfo stored for an edge id e that insert / add_edge returned
\* has edge_id() = e, from() the given source and to() the given target.
C15_EdgeInfoCarriesId ==
    \A e \in DOMAIN live_e :
       LET info == EdgeContainer_get_connection(graph.edges, e)
       IN  /\ IsSome(info)
           /\ Unwrap(info).edge_id = e
           /\ Unwrap(info).from = live_e[e].from
           /\ Unwrap(info).to = live_e[e].to

\* C16: edge_from(e) and edge_to(e), and the tail and head edge(e) reports,
\* are the endpoints given to add_edge for as long as e is live, whatever
\* edge_mut, add, remove and clear calls are made meanwhile.
C16_EndpointsImmutable ==
    \A e \in DOMAIN live_e :
       /\ Graph_edge_from(graph, e) = Some(live_e[e].from)
       /\ Graph_edge_to(graph, e) = Some(live_e[e].to)
       /\ IsSome(Graph_edge(graph, e))
       /\ Unwrap(Graph_edge(graph, e)).from = live_e[e].from
       /\ Unwrap(Graph_edge(graph, e)).to = live_e[e].to

\* a live edge a -> b in a reused slot, with another payload than the one a
\* second live edge has, after a vertex was removed
C16_Witness ==
    \E e \in DOMAIN live_e, f \in DOMAIN live_e :
       /\ live_e[e].from /= live_e[e].to
       /\ live_e[e].weight /= live_e[f].weight
       /\ \E r \in Removed(given_e, live_e) : r.idx = e.idx
       /\ Removed(given_v, live_v) /= {}

\* C17: clear() leaves vertex_count and edge_count 0 and is_empty true, and
\* no vertex id or edge id issued before it resolves afterwards, also after
\* new vertices and edges are added: these get ids never issued before.
C17_ClearForgetsAll ==
    /\ [][Clear =>
             /\ Graph_vertex_count(graph') = 0
             /\ Graph_edge_count(graph') = 0
             /\ Graph_is_empty(graph')
             /\ \A h \in given_v :
                   ~Graph_contains_vertex(graph', h) /\ Graph_vertex(graph', h) = None
             /\ \A h \in given_e :
                   ~Graph_contains_edge(graph', h) /\ Graph_edge(graph', h) = None
       ]_vars
    /\ [][/\ \A p \in Payloads : AddVertex(p) =>
                  Graph_add_vertex(graph, p).id \notin given_v
          /\ \A a \in EndpointIds, b \in EndpointIds, p \in Payloads : AddEdge(a, b, p) =>
                  Graph_add_edge(graph, a, b, p).id \notin given_e
       ]_vars
    /\ [](\A h \in Removed(given_v, live_v) :
             ~Graph_contains_vertex(graph, h) /\ Graph_vertex(graph, h) = None)
    /\ [](\A h \in Removed(given_e, live_e) :
             /\ ~Graph_contains_edge(graph, h)
             /\ Graph_edge(graph, h) = None
             /\ Graph_edge_from(graph, h) = None)

\* the latest removal was a clear of a graph with two edges, and a vertex and
\* an edge added since sit in slots that ids from before the clear point at
C17_Witness ==
    /\ cascaded.op = "clear"
    /\ cascaded.edges = 2
    /\ \E h \in DOMAIN live_v, r \in Removed(given_v, live_v) : h.idx = r.idx
    /\ \E h \in DOMAIN live_e, r \in Removed(given_e, live_e) : h.idx = r.idx

\* the smaller of two numbers, and the ids of a sequence of references
Min(a, b) == IF a <= b THEN a ELSE b
RefIds(refs) == [i \in 1..Len(refs) |-> refs[i].id]

\* C18: vertices(search) yields at most search.limit() references, each a
\* distinct live vertex with its own id and current payload; without limit
\* every live vertex comes once, with limit n min(n, vertex_count()) items.
C18_VerticesLimit ==
    \A search \in VertexSearches :
       LET refs == Graph_vertices(graph, search)
       IN  /\ Len(refs) <= Search_limit(search)
           /\ NoDup(RefIds(refs))
           /\ \A i \in 1..Len(refs) :
                 /\ refs[i].id \in DOMAIN live_v
                 /\ refs[i].weight = live_v[refs[i].id]
           /\ search.kind = "Scan" =>
                 /\ Len(refs) = Min(Search_limit(search), Graph_vertex_count(graph))
                 /\ Len(refs) = Min(Search_limit(search), Cardinality(DOMAIN live_v))
                 /\ search.limit = None => Range(RefIds(refs)) = DOMAIN live_v

\* two live vertices, one of them in a reused slot: a scan with limit 1
\* yields one of them and a scan without limit both
C18_Witness ==
    /\ Cardinality(DOMAIN live_v) = 2
    /\ \E h \in DOMAIN live_v, r \in Removed(given_v, live_v) : h.idx = r.idx
    /\ Len(Graph_vertices(graph, [kind |-> "Scan", limit |-> Some(1)])) = 1
    /\ Len(Graph_vertices(graph, [kind |-> "Scan", limit |-> None])) = 2

\* C19: vertices(search) yields only vertices with the requested label for a
\* label search, only vertices indexed under the value for an indexed
\* exact-match search, and only vertices indexed under a key inside the
\* range for an indexed range search.
C19_VerticesHonourSearch ==
    \A search \in VertexSearches :
       LET refs == Graph_vertices(graph, search)
       IN  \A i \in 1..Len(refs) :
              /\ search.kind = "Label" => LabelOf(refs[i].weight) = search.label
              /\ search.kind = "Index" =>
                    refs[i].id \in SimpleVertexQuery_query_value(graph.vertex_query, search.value).ids
              /\ search.kind = "Range" =>
                    refs[i].id \in SimpleVertexQuery_range_value(graph.vertex_query,
                                                                 search.start, search.end).ids

\* the live edges that edges(v, search) is to yield
MatchingEdges(v, search) ==
    {e \in DOMAIN live_e :
        /\ CASE search.direction = "Outgoing" -> live_e[e].from = v
             [] search.direction = "Incoming" -> live_e[e].to = v
             [] OTHER -> live_e[e].from = v \/ live_e[e].to = v
        /\ search.label /= None => LabelOf(live_e[e].weight) = Unwrap(search.label)}

\* C20: edges(v, search) yields the live edges of the asked direction at v
\* that carry the asked label, if one is given, each once, cut off after
\* search.limit() items; tail and head of each reference are the from and
\* to of the edge.
C20_EdgesSearch ==
    \A v \in EndpointIds,
       direction \in {"Outgoing", "Incoming", "All"},
       label \in {None} \cup {Some(l) : l \in Labels} :
       LET search == [direction |-> direction, label |-> label, limit |-> None]
           refs == Graph_edges(graph, v, search)
       IN  /\ Range(RefIds(refs)) = MatchingEdges(v, search)
           /\ NoDup(RefIds(refs))
           /\ \A i \in 1..Len(refs) :
                 /\ refs[i].from = live_e[refs[i].id].from
                 /\ refs[i].to = live_e[refs[i].id].to
                 /\ refs[i].weight = live_e[refs[i].id].weight
                 /\ Graph_edge_from(graph, refs[i].id) = Some(refs[i].from)
                 /\ Graph_edge_to(graph, refs[i].id) = Some(refs[i].to)
           /\ \A limit \in SearchLimits \ {None} :
                 Graph_edges(graph, v, [search EXCEPT !.limit = limit])
                    = SubSeq(refs, 1, Min(Search_limit([search EXCEPT !.limit = limit]),
                                          Len(refs)))

\* a vertex with an outgoing edge of one label and an incoming edge of the
\* other: the label picks one of the two, and limit 1 cuts the pair to one
C20_Witness ==
    \E v \in VertexIds, e \in DOMAIN live_e, f \in DOMAIN live_e :
       /\ live_e[e].from = v /\ live_e[e].to /= v
       /\ live_e[f].to = v /\ live_e[f].from /= v
       /\ LabelOf(live_e[e].weight) /= LabelOf(live_e[f].weight)
       /\ RefIds(Graph_edges(graph, v, [direction |-> "All",
                                        label |-> Some(LabelOf(live_e[e].weight)),
                                        limit |-> None])) = <<e>>
       /\ Len(Graph_edges(graph, v, [direction |-> "All", label |-> None,
                                     limit |-> Some(1)])) = 1
       /\ RefIds(Graph_edges(graph, v, [direction |-> "Incoming", label |-> None,
                                        limit |-> None])) = <<f>>

IdsIn(q) == UNION {UNION {map[k] : k \in DOMAIN map} : map \in QueryMaps(q)}

\* C22: the indices follow the data: a remove_vertex(v) step leaves no index
\* of vertex_query holding v, and a clear() step leaves the indices holding
\* no id at all, so that every id stored in vertex_query is a vertex of the
\* graph.
C22_IndexedIdsAreLive ==
    [][/\ \A v \in VertexIds : RemoveVertex(v) => v \notin IdsIn(graph'.vertex_query)
       /\ Clear => IdsIn(graph'.vertex_query) = {}
    ]_vars

\* C23: degree(v) = in_degree(v) + out_degree(v) for every vertex id v, add_edge
\* taking any pair of endpoint ids.
C23_DegreeIsInPlusOut ==
    \A v \in VertexIds :
       Graph_degree(graph, v) = Graph_in_degree(graph, v) + Graph_out_degree(graph, v)

\* C24: a HashIndex and a RangeIndex that get the same insert(k, v) and
\* remove(k, v) calls return the same boolean for every call and hold, after
\* every step, the same keys and the same value set under get(k) for every k.
C24_HashAndRangeAgree ==
    /\ ret.op \in {"pair_insert", "pair_remove"} => ret.ret = ret.range_ret
    /\ HashIndex_keys(hash_index) = RangeIndex_keys(range_index)
    /\ HashIndex_keys_len(hash_index) = RangeIndex_keys_len(range_index)
    /\ \A k \in ProbeKeys : HashIndex_get(hash_index, k) = RangeIndex_get(range_index, k)

\* the latest call removed the last value of a key, which both indices
\* dropped, and another key holds both values
C24_Witness ==
    /\ ret.op = "pair_remove" /\ ret.ret /\ ret.range_ret
    /\ ret.key \notin HashIndex_keys(hash_index) \cup RangeIndex_keys(range_index)
    /\ \E k \in IndexKeys : RangeIndex_get(range_index, k) = IndexValues

\* keys, values and pairs list the live handles of the history, each once
\* and with its current payload
ListsExactly(keys, values, pairs, live) ==
    /\ NoDup(keys)
    /\ Range(keys) = DOMAIN live
    /\ Len(values) = Len(keys) /\ Len(pairs) = Len(keys)
    /\ \A i \in 1..Len(keys) :
          /\ values[i] = live[keys[i]]
          /\ pairs[i] = <<keys[i], live[keys[i]]>>

\* C25: keys(), values() and iter() of a store yield each live handle with
\* its current payload once and no removed one, and len() is that count;
\* len() grows by one on an insert, shrinks by one on a remove that returns a
\* payload, stays on a remove that returns None and is 0 after clear;
\* is_empty() holds exactly when len() is 0.
C25_IterationAndLen ==
    /\ ListsExactly(VertexContainer_keys(graph.vertices),
                    VertexContainer_values(graph.vertices),
                    VertexContainer_iter(graph.vertices), live_v)
    /\ VertexContainer_len(graph.vertices) = Cardinality(DOMAIN live_v)
    /\ VertexContainer_is_empty(graph.vertices) <=> VertexContainer_len(graph.vertices) = 0
    /\ ListsExactly(Container_keys(container), Container_values(container),
                    Container_iter(container), live_c)
    /\ Container_len(container) = Cardinality(DOMAIN live_c)
    /\ Container_is_empty(container) <=> Container_len(container) = 0
    \* what the next insert, remove or clear does to len()
    /\ \A p \in Payloads :
          /\ VertexContainer_len(VertexContainer_insert(graph.vertices, p).container)
                = VertexContainer_len(graph.vertices) + 1
          /\ Container_len(Container_insert(container, p).container)
                = Container_len(container) + 1
    /\ \A h \in VertexIds :
          /\ LET r == VertexContainer_remove(graph.vertices, h)
             IN  /\ IsSome(r.value) <=> h \in DOMAIN live_v
                 /\ VertexContainer_len(r.container) =
                       VertexContainer_len(graph.vertices) - (IF IsSome(r.value) THEN 1 ELSE 0)
          /\ LET r == Container_remove(container, h)
             IN  /\ IsSome(r.value) <=> h \in DOMAIN live_c
                 /\ Container_len(r.container) =
                       Container_len(container) - (IF IsSome(r.value) THEN 1 ELSE 0)
    /\ VertexContainer_len(VertexContainer_clear(graph.vertices)) = 0
    /\ VertexContainer_is_empty(VertexContainer_clear(graph.vertices))
    /\ Container_len(Container_clear(container)) = 0
    /\ Container_is_empty(Container_clear(container))

\* a store with a live handle in a reused slot next to a freed slot
C25_Witness ==
    \/ /\ instance = "graph"
       /\ \E h \in DOMAIN live_v, r \in Removed(given_v, live_v) : h.idx = r.idx
       /\ \E r \in Removed(given_v, live_v) : \A h \in DOMAIN live_v : h.idx /= r.idx
       /\ VertexContainer_len(graph.vertices) = 1
    \/ /\ instance = "container"
       /\ \E h \in DOMAIN live_c, r \in Removed(given_c, live_c) : h.idx = r.idx
       /\ \E r \in Removed(given_c, live_c) : \A h \in DOMAIN live_c : h.idx /= r.idx
       /\ Container_len(container) = 1

\* C26: remove_edge(e) for a live edge e returns e's payload; afterwards e is
\* not contained and edge_count is one less, every vertex and every other
\* edge keeps its id, payload and endpoints, and has_edge(from, to) holds
\* exactly when another live edge from -> to remains.
C26_RemoveEdgeFrame ==
    [][\A e \in DOMAIN live_e : RemoveEdge(e) =>
          /\ Graph_remove_edge(graph, e).value = Some(live_e[e].weight)
          /\ ~Graph_contains_edge(graph', e)
          /\ Graph_edge(graph', e) = None
          /\ Graph_edge_count(graph') = Graph_edge_count(graph) - 1
          /\ Graph_vertex_count(graph') = Graph_vertex_count(graph)
          /\ \A v \in VertexIds : Graph_vertex(graph', v) = Graph_vertex(graph, v)
          /\ \A f \in EdgeIds \ {e} : Graph_edge(graph', f) = Graph_edge(graph, f)
          /\ \A from \in EndpointIds, to \in EndpointIds :
                Graph_has_edge(graph', from, to) <=>
                   \E f \in DOMAIN live_e \ {e} :
                      live_e[f].from = from /\ live_e[f].to = to
    ]_vars

\* no remove_vertex or clear has been called, an edge is gone all the same,
\* and an edge with the endpoints of a live vertex is still there
C26_Witness ==
    /\ cascaded.op = "none"
    /\ Removed(given_e, live_e) /= {}
    /\ Graph_edge_count(graph) = 1
    /\ \E f \in DOMAIN live_e : live_e[f].from \in DOMAIN live_v

\* the slots of a slot map that are free for reuse
FreedSlots(sm) == {i \in 1..Len(sm.slots) : ~SlotOccupied(sm.slots[i])}

\* an insert into the slot map `before` that returned key and left `after`
\* reused a freed slot if there was one, with a generation above every
\* handle of `given` for that slot, and pushed a slot only if there was none
ReusesOrGrows(before, after, key, given) ==
    /\ key \notin given
    /\ key /= DefaultKey
    /\ \A h \in given : h.idx = key.idx => key.version > h.version
    /\ FreedSlots(before) /= {} =>
          /\ key.idx \in FreedSlots(before)
          /\ Len(after.slots) = Len(before.slots)
    /\ FreedSlots(before) = {} =>
          /\ key.idx = Len(before.slots) + 1
          /\ Len(after.slots) = Len(before.slots) + 1
    /\ SlotMap_contains_key(after, key)

\* C27: insert reuses a freed slot when there is one and gives it a
\* generation above that of every handle issued for the slot before, so the
\* handle differs from every handle the store has returned; the number of
\* slots grows only when no freed slot is there.
C27_InsertReusesFreedSlots ==
    \A p \in Payloads :
       /\ LET r == VertexContainer_insert(graph.vertices, p)
          IN  ReusesOrGrows(graph.vertices.data, r.container.data, r.id, given_v)
       /\ LET r == Container_insert(container, p)
          IN  ReusesOrGrows(container.data, r.container.data, r.id, given_c)

\* the latest insert went into a freed slot: a live handle of the second
\* generation, the handle of the first generation removed, no slot pushed
C27_Witness ==
    \/ /\ instance = "graph"
       /\ \E h \in DOMAIN live_v, r \in Removed(given_v, live_v) :
             h.idx = r.idx /\ h.version > r.version
       /\ Len(graph.vertices.data.slots) = 1
    \/ /\ instance = "container"
       /\ \E h \in DOMAIN live_c, r \in Removed(given_c, live_c) :
             h.idx = r.idx /\ h.version > r.version
       /\ Len(container.data.slots) = 1

\* C28: remove_vertex(v) first collects all edges incident to v, then removes
\* them from the edge store one by one, and only then removes v from the
\* vertex store: while the call runs the vertex store is untouched as long
\* as an edge of v is live, the edges still to remove are exactly the live
\* edges of v, and no edge goes before the list is complete.
C28_CascadeOrder ==
    /\ [](call.pc = "edges" =>
             /\ graph.vertices = call.before.vertices
             /\ call.id \in DOMAIN live_v => Graph_contains_vertex(graph, call.id)
             /\ LET all == EdgeContainer_edges_adjacent(call.before.edges, call.id)
                    done == Len(all) - Len(call.edges_to_remove)
                IN  /\ done >= 0
                    /\ call.edges_to_remove = SubSeq(all, done + 1, Len(all))
                    /\ graph.edges = RemoveEdges(call.before.edges, SubSeq(all, 1, done), 1)
             /\ Incident(call.id) = Range(call.edges_to_remove))
    /\ [][/\ \A id \in VertexIds : RemoveVertexCollect(id) =>
                /\ graph' = graph
                /\ Range(call'.edges_to_remove) = Incident(id)
          /\ RemoveVertexNextEdge =>
                /\ graph'.vertices = graph.vertices
                /\ Graph_edge_count(graph') = Graph_edge_count(graph) - 1
          /\ RemoveVertexSlot =>
                /\ Incident(call.id) = {}
                /\ graph'.edges = graph.edges
                /\ graph' = Graph_remove_vertex(call.before, call.id).graph
       ]_vars

\* a remove_vertex of a live vertex with two edges has removed the first
\* edge: the second is still to go and the vertex is still there
C28_Witness ==
    /\ call.pc = "edges"
    /\ call.id \in DOMAIN live_v
    /\ Len(EdgeContainer_edges_adjacent(call.before.edges, call.id)) = 2
    /\ Len(call.edges_to_remove) = 1
    /\ Graph_contains_vertex(graph, call.id)

\* C29: when every add_edge call names two vertices live at that moment,
\* then under add_vertex, add_edge, remove_vertex, remove_edge and clear both
\* endpoints of every live edge are live vertices.
C29_NoDanglingEdge ==
    /\ \A e \in EdgeIds : Graph_contains_edge(graph, e) =>
          /\ Graph_contains_vertex(graph, Unwrap(Graph_edge_from(graph, e)))
          /\ Graph_contains_vertex(graph, Unwrap(Graph_edge_to(graph, e)))
    /\ \A e \in DOMAIN live_e : live_e[e].from \in DOMAIN live_v /\ live_e[e].to \in DOMAIN live_v

\* the latest removal took a live vertex and its edges with it, a vertex id
\* is stale, and an edge between live vertices is there
C29_Witness ==
    /\ cascaded.op = "remove_vertex" /\ cascaded.vertex_live /\ cascaded.edges >= 1
    /\ Removed(given_v, live_v) /= {}
    /\ \E e \in DOMAIN live_e : live_e[e].from /= live_e[e].to

\* C30: the from and to of every edge were live vertices of the graph at the
\* moment add_edge created it: no add_edge step stores an endpoint that is a
\* removed, never issued or default vertex id.
C30_EndpointsLiveAtCreation ==
    [][\A from \in EndpointIds, to \in EndpointIds, edge \in Payloads :
          AddEdge(from, to, edge) =>
             /\ Graph_contains_vertex(graph, from)
             /\ Graph_contains_vertex(graph, to)
             /\ \A e \in DOMAIN live_e' \ DOMAIN live_e :
                   live_e'[e].from \in DOMAIN live_v /\ live_e'[e].to \in DOMAIN live_v
    ]_vars

\* the pairs (key, value) an index holds
HeldPairs(ix) == UNION {{<<k, v>> : v \in ix.map[k]} : k \in DOMAIN ix.map}

\* C31: for HashIndex and RangeIndex, remove(k, v) returns true exactly when
\* the pair (k, v) was present; it takes out only that pair, every other key
\* and every other value under k staying as they were, and when the pair is
\* absent (unknown key, or value not under k) it returns false and leaves the
\* index unchanged.
C31_RemoveFrame ==
    \A k \in ProbeKeys, v \in IndexValues :
        LET h == HashIndex_remove(hash_index, k, v)
            r == RangeIndex_remove(range_index, k, v)
        IN  /\ h.ret <=> <<k, v>> \in HeldPairs(hash_index)
            /\ r.ret <=> <<k, v>> \in HeldPairs(range_index)
            /\ h.ret <=> <<k, v>> \in hash_pairs
            /\ r.ret <=> <<k, v>> \in range_pairs
            /\ HeldPairs(h.index) = HeldPairs(hash_index) \ {<<k, v>>}
            /\ HeldPairs(r.index) = HeldPairs(range_index) \ {<<k, v>>}
            /\ \A j \in ProbeKeys \ {k} :
                  /\ HashIndex_get(h.index, j) = HashIndex_get(hash_index, j)
                  /\ HashIndex_contains_key(h.index, j) <=> HashIndex_contains_key(hash_index, j)
                  /\ RangeIndex_get(r.index, j) = RangeIndex_get(range_index, j)
                  /\ j \in RangeIndex_keys(r.index) <=> j \in RangeIndex_keys(range_index)
            /\ HashIndex_get(h.index, k) = HashIndex_get(hash_index, k) \ {v}
            /\ RangeIndex_get(r.index, k) = RangeIndex_get(range_index, k) \ {v}
            /\ ~h.ret => h.index = hash_index
            /\ ~r.ret => r.index = range_index

\* the latest remove took one of two values from under a key while another
\* key is held, and a removal of the value just taken would find nothing
C31_Witness ==
    /\ ret.op = "pair_remove" /\ ret.ret /\ ret.range_ret
    /\ HashIndex_len_of(hash_index, ret.key) = 1
    /\ HashIndex_keys_len(hash_index) = 2
    /\ ~HashIndex_remove(hash_index, ret.key, ret.value).ret
    /\ ~RangeIndex_remove(range_index, ret.key, ret.value).ret

\* len_of(k) added up over the given keys
RECURSIVE SumLenOf(_, _)
SumLenOf(ix, keys) ==
    IF keys = {} THEN 0
    ELSE LET k == CHOOSE x \in keys : TRUE
         IN  HashIndex_len_of(ix, k) + SumLenOf(ix, keys \ {k})

\* C32: get(k) yields exactly the values inserted under k and not since
\* removed, and nothing for an absent key; remove_all(k) returns the whole
\* value set of k (None when k is absent) and afterwards contains_key(k) is
\* false, len_of(k) is 0 and the other keys are unchanged; keys_len() is the
\* number of present keys and total_values_len() the sum of len_of over them.
C32_GetRemoveAllAndCounts ==
    /\ \A k \in ProbeKeys :
          /\ HashIndex_get(hash_index, k) = PairsOf(hash_pairs, k)
          /\ k \notin StoredKeys(hash_pairs) => HashIndex_get(hash_index, k) = {}
          /\ LET r == HashIndex_remove_all(hash_index, k)
             IN  /\ r.ret = IF k \in StoredKeys(hash_pairs)
                            THEN Some(PairsOf(hash_pairs, k)) ELSE None
                 /\ IsSome(r.ret) <=> HashIndex_contains_key(hash_index, k)
                 /\ ~HashIndex_contains_key(r.index, k)
                 /\ HashIndex_len_of(r.index, k) = 0
                 /\ HashIndex_get(r.index, k) = {}
                 /\ HashIndex_keys(r.index) = HashIndex_keys(hash_index) \ {k}
                 /\ \A j \in ProbeKeys \ {k} :
                       HashIndex_get(r.index, j) = HashIndex_get(hash_index, j)
                 /\ HashIndex_total_values_len(r.index) =
                       HashIndex_total_values_len(hash_index) - HashIndex_len_of(hash_index, k)
    /\ HashIndex_keys_len(hash_index) = Cardinality(StoredKeys(hash_pairs))
    /\ HashIndex_keys_len(hash_index) =
          Cardinality({k \in ProbeKeys : HashIndex_contains_key(hash_index, k)})
    /\ HashIndex_total_values_len(hash_index) = SumLenOf(hash_index, StoredKeys(hash_pairs))
    /\ HashIndex_total_values_len(hash_index) = Cardinality(hash_pairs)

\* remove_all has just returned the values of a key, and of the two keys
\* left one holds two values and the other one
C32_Witness ==
    /\ ret.op = "hash_remove_all" /\ ret.ret
    /\ ~HashIndex_contains_key(hash_index, ret.key)
    /\ HashIndex_keys_len(hash_index) = 2
    /\ HashIndex_total_values_len(hash_index) = 3

\* (smallest, largest) of a set of keys, None for no key
BoundsOf(keys) ==
    IF keys = {} THEN None
    ELSE Some(<<CHOOSE k \in keys : \A j \in keys : k <= j,
                CHOOSE k \in keys : \A j \in keys : k >= j>>)

\* C33: range_bounds() returns None exactly when the RangeIndex holds no
\* pair, and otherwise (min, max), the smallest and the largest key that have
\* a value; after the last value under the smallest or the largest key is
\* removed, the bounds move to the next key left.
C33_RangeBounds ==
    /\ RangeIndex_range_bounds(range_index) = None <=> range_pairs = {}
    /\ RangeIndex_range_bounds(range_index) = BoundsOf(StoredKeys(range_pairs))
    /\ RangeIndex_range_bounds(range_index) =
          BoundsOf({k \in ProbeKeys : RangeIndex_get(range_index, k) /= {}})
    /\ \A k \in IndexKeys, v \in IndexValues :
          LET r == RangeIndex_remove(range_index, k, v)
          IN  RangeIndex_range_bounds(r.index) =
                 BoundsOf(StoredKeys(range_pairs \ {<<k, v>>}))

\* remove has just taken the last value of the former smallest key: the
\* bounds now span the two keys above it
C33_Witness ==
    /\ ret.op = "range_remove" /\ ret.ret
    /\ RangeIndex_get(range_index, ret.key) = {}
    /\ IsSome(RangeIndex_range_bounds(range_index))
    /\ LET b == Unwrap(RangeIndex_range_bounds(range_index))
       IN  ret.key < b[1] /\ b[1] < b[2]

\* the ids the calls so far have left under the integer keys of a set
IdsUnder(keys) == UNION {PairsOf(query_ints, k) : k \in keys}

\* the integers a..b - 1
HalfOpen(a, b) == {k \in I64Values \cup U64Values : a <= k /\ k < b}

IntegerVariants == SignedVariants \cup UnsignedVariants

\* C34: query_value(v) returns the ids of query_string(s) for a string
\* variant and of query_int(n) for every signed or unsigned integer variant
\* holding n; range_value(a..b) with both bounds of the same integer variant
\* returns the ids indexed under the keys k with a <= k < b; any other
\* variant, or a range whose bounds are of different variants, yields nothing
\* and never fails.
C34_ValueQueries ==
    \A a \in Values :
       LET r == SimpleVertexQuery_query_value(query, a)
       IN  /\ ~r.panicked
           /\ a.variant = "Str" =>
                 /\ r.ids = SimpleVertexQuery_query_string(query, a.v)
                 /\ r.ids = PairsOf(query_strings, a.v)
           /\ a.variant \in IntegerVariants => r.ids = IdsUnder({a.v})
           /\ a.variant \in IntegerVariants /\ a.v \in I64Values =>
                 r.ids = SimpleVertexQuery_query_int(query, a.v)
           /\ a.variant \notin IntegerVariants \cup {"Str"} => r.ids = {}
           /\ \A b \in Values :
                 LET s == SimpleVertexQuery_range_value(query, a, b)
                 IN  /\ ~s.panicked
                     /\ IF a.variant = b.variant /\ a.variant \in IntegerVariants
                        THEN s.ids = IdsUnder(HalfOpen(a.v, b.v))
                        ELSE s.ids = {}

\* C35: Storage::contains(id), the trait method that checks whether the
\* container holds the given id, returns true exactly when the id is a live
\* handle of that container, as the container's own contains does, for
\* VertexContainer, EdgeContainer and Container.
C35_StorageContains ==
    /\ \A id \in VertexIds :
          /\ Storage_contains_VertexContainer(graph.vertices, id) <=> id \in DOMAIN live_v
          /\ Storage_contains_VertexContainer(graph.vertices, id) <=>
                VertexContainer_contains(graph.vertices, id)
    /\ \A id \in EdgeIds :
          /\ Storage_contains_EdgeContainer(graph.edges, id) <=> id \in DOMAIN live_e
          /\ Storage_contains_EdgeContainer(graph.edges, id) <=>
                EdgeContainer_contains(graph.edges, id)
    /\ \A key \in given_c \cup {DefaultKey} :
          /\ Storage_contains_Container(container, key) <=> key \in DOMAIN live_c
          /\ Storage_contains_Container(container, key) <=>
                Container_contains(container, key)

\* C36: in every reachable state of an EdgeContainer (any sequence of insert,
\* insert_iter, remove, retain, clear) the payload map and the connection map
\* hold the same keys, so for every edge id contains(e), get(e).is_some() and
\* get_connection(e).is_some() are equivalent, and the EdgeInfo found under
\* the key an insert returned is the one passed to that insert.
C36_MapsInLockstep ==
    /\ SlotMap_keys(graph.edges.data) = SlotMap_keys(graph.edges.connections)
    /\ \A e \in EdgeIds :
          /\ EdgeContainer_contains(graph.edges, e) <=> IsSome(EdgeContainer_get(graph.edges, e))
          /\ EdgeContainer_contains(graph.edges, e) <=>
                IsSome(EdgeContainer_get_connection(graph.edges, e))
          /\ EdgeContainer_contains(graph.edges, e) <=> e \in DOMAIN live_e
    /\ \A e \in DOMAIN live_e :
          /\ EdgeContainer_get(graph.edges, e) = Some(live_e[e].weight)
          /\ EdgeContainer_get_connection(graph.edges, e) =
                Some(EdgeInfo_new(EdgeId_default, live_e[e].from, live_e[e].to))

\* retain has just dropped one of two edges: the edge kept sits in the
\* second slot, behind a freed one, and an id of the first slot is stale
C36_Witness ==
    /\ ret.op = "edge_retain" /\ ret.key = 1
    /\ \E e \in DOMAIN live_e :
          /\ DOMAIN live_e = {e}
          /\ e.idx = 2
          /\ IsSome(EdgeContainer_get_connection(graph.edges, e))
    /\ \E r \in Removed(given_e, live_e) :
          r.idx = 1 /\ ~IsSome(EdgeContainer_get_connection(graph.edges, r))

\* C37: all_edges() / iter_with_connections() yields every live edge exactly
\* once as (id, payload, from, to) where from and to are edge_from(id) and
\* edge_to(id); after any sequence of inserts and removals no edge is paired
\* with the endpoints of another edge.
C37_AllEdgesPairing ==
    LET all == Graph_all_edges(graph)
        with == EdgeContainer_iter_with_connections(graph.edges)
    IN  /\ Len(all) = Cardinality(DOMAIN live_e)
        /\ Len(with) = Len(all)
        /\ \A e \in DOMAIN live_e : Cardinality({i \in 1..Len(all) : all[i][1] = e}) = 1
        /\ \A i \in 1..Len(all) :
              LET e == all[i][1]
              IN  /\ e \in DOMAIN live_e
                  /\ with[i].id = e
                  /\ all[i][2] = live_e[e].weight
                  /\ all[i][3] = live_e[e].from /\ all[i][4] = live_e[e].to
                  /\ Some(all[i][3]) = Graph_edge_from(graph, e)
                  /\ Some(all[i][4]) = Graph_edge_to(graph, e)
                  /\ with[i].info = Unwrap(EdgeContainer_get_connection(graph.edges, e))

\* the one edge listed sits in the second slot, behind a slot freed by a
\* removal, and joins two different vertices
C37_Witness ==
    /\ Len(Graph_all_edges(graph)) = 1
    /\ Graph_all_edges(graph)[1][1].idx = 2
    /\ Graph_all_edges(graph)[1][3] /= Graph_all_edges(graph)[1][4]
    /\ \E r \in Removed(given_e, live_e) : r.idx = 1

\* C38: when graph.remove_vertex(id) returns None (id is stale, never issued
\* or default), the graph is left unchanged: vertex_count, edge_count and the
\* live edges with their endpoints are the same as before the call.
C38_RemoveVertexMissKeepsGraph ==
    \A id \in VertexIds :
       LET r == Graph_remove_vertex(graph, id)
       IN  r.value = None =>
              /\ Graph_vertex_count(r.graph) = Graph_vertex_count(graph)
              /\ Graph_edge_count(r.graph) = Graph_edge_count(graph)
              /\ Graph_all_edges(r.graph) = Graph_all_edges(graph)
              /\ \A e \in DOMAIN live_e :
                    /\ Graph_contains_edge(r.graph, e)
                    /\ Graph_edge_from(r.graph, e) = Some(live_e[e].from)
                    /\ Graph_edge_to(r.graph, e) = Some(live_e[e].to)

\* C39: a range query whose start is greater than its end
\* (RangeIndex::range(lo..hi), SimpleVertexQuery::range_int(lo..hi) or
\* range_value with lo > hi) yields nothing and does not fail; likewise
\* range_int(k..k) yields nothing.
C39_InvertedRangeIsEmpty ==
    /\ \A lo \in ProbeKeys, hi \in ProbeKeys : lo > hi =>
          LET r == RangeIndex_range(range_index, Included(lo), Excluded(hi))
          IN  ~r.panicked /\ Yielded(r) = {}
    /\ \A lo \in I64Values, hi \in I64Values :
          /\ lo > hi =>
                LET r == SimpleVertexQuery_range_int(query, lo, hi)
                    s == SimpleVertexQuery_range_value(query, [variant |-> "I64", v |-> lo],
                                                       [variant |-> "I64", v |-> hi])
                IN  /\ ~r.panicked /\ Yielded(r) = {}
                    /\ ~s.panicked /\ s.ids = {}
          /\ lo = hi =>
                LET r == SimpleVertexQuery_range_int(query, lo, hi)
                IN  ~r.panicked /\ Yielded(r) = {}

\* the ids indexed under a negative integer
NegativeIds == IdsUnder({k \in I64Values : k < 0})

\* the unsigned 64-bit values above the largest signed one
AboveI64 == {[variant |-> "U64", v |-> n] : n \in U64Values \ I64Values}

\* C40: query_value and range_value map every integer variant to the i64 key
\* with the same numeric value; for an unsigned 64-bit value above 2^63 - 1,
\* which has no such key, the lookup matches nothing and never returns a
\* vertex indexed under a negative integer.
C40_IntegerKeySpace ==
    /\ \A a \in Values : a.variant \in IntegerVariants /\ a.v \in I64Values =>
          /\ Value_as_i64(a) = a.v
          /\ SimpleVertexQuery_query_value(query, a).ids = PairsOf(query_ints, a.v)
    /\ \A a \in AboveI64 :
          /\ SimpleVertexQuery_query_value(query, a).ids = {}
          /\ \A b \in AboveI64 : a.v <= b.v =>
                LET s == SimpleVertexQuery_range_value(query, a, b)
                IN  ~s.panicked /\ s.ids \cap NegativeIds = {}

====
